---- MODULE Spec2Model ----
(***************************************************************************)
(* Model of the retrieval core of the HR interviewer backend:              *)
(*   scripts/build_index.py        (chunk_text, extract_text_from_pdfs,    *)
(*                                  build_index)                           *)
(*   services/rag_service.py       (_load_chunks, _load_index,             *)
(*                                  _load_model, the four retrieval calls) *)
(*   services/rag_metrics.py       (retrieve_chunks)                       *)
(*   services/interview_service.py (start_interview, evaluate_answer)      *)
(* Text is a sequence of one-character strings.                            *)
(***************************************************************************)
EXTENDS Integers, Sequences, FiniteSets, TLC

VARIABLES
    \* ---- chunk_text(text, source_name, max_chars, overlap) ----
    ct_pc,        \* "entry" | "while" | "return"
    ct_input,     \* history: the `text` argument as the caller passed it
    ct_text,      \* the local `text` (the argument, then the normalised text)
    ct_source,    \* source_name
    ct_max,       \* max_chars
    ct_overlap,   \* overlap
    ct_start,     \* start
    ct_res,       \* res
    ct_windows,   \* history: the <<start, end>> pairs of the iterations so far
    \* ---- extract_text_from_pdfs() ----
    x_pc,         \* "off" | "loop" | "chunking" | "returned" | "raised"
    x_books,      \* the documents BOOKS_DIR.glob("*.pdf") has still to yield
    x_chunks,     \* the local `chunks`
    x_spans,      \* history: per document done, its name and its positions in chunks
    \* ---- the vector_db directory ----
    disk_index,   \* INDEX_PATH: Absent | Corrupt | [rows |-> sequence of vectors]
    disk_chunks,  \* TEXTS_PATH: Absent | Corrupt | [list |-> sequence of chunks]
    \* ---- one run of build_index ----
    b_pc,         \* "idle" | "extracted" | "indexed" | "index_written"
    b_chunks,     \* the local `chunks`
    b_index,      \* the local `index` (its rows)
    \* ---- the serving process (rag_service module state) ----
    cache_chunks, \* lru_cache of _load_chunks: None | [list |-> ...]
    cache_index,  \* lru_cache of _load_index:  None | [rows |-> ...]
    cache_model,  \* lru_cache of _load_model:  TRUE when the model is cached
    loads,        \* successful loader-body executions, per loader
    ret,          \* the call or build run that has just ended: arguments and outcome
    last,         \* history: the latest search call that returned (where it is tracked)
    \* ---- the Flask process: routes/interview.py over interview_controller ----
    is_running,   \* interview_controller.is_running
    threads,      \* history: the interview threads alive
    http_log,     \* history: the requests answered so far, oldest first
    \* ---- gemini_service ----
    groq_client,  \* TRUE when Groq(api_key=...) constructed a client, FALSE for None
    llm_ret,      \* the gemini_service call that has just ended: arguments and outcome
    \* ---- scripts/mic_voice_interview.py ----
    GEMINI_TTS_ENABLED, \* module flag, False once Gemini TTS has failed
    GROQ_TTS_ENABLED,   \* module flag, False once Groq TTS has failed
    tts_log,      \* history: the tts_say calls of the process, oldest first
    stt_ret,      \* the stt_transcribe call that has just ended
    main          \* the locals of main() in its two question rounds

ct_vars == <<ct_pc, ct_input, ct_text, ct_source, ct_max, ct_overlap, ct_start, ct_res, ct_windows>>
x_vars == <<x_pc, x_books, x_chunks, x_spans>>
disk_vars == <<disk_index, disk_chunks>>
b_vars == <<b_pc, b_chunks, b_index>>
serve_vars == <<cache_chunks, cache_index, cache_model, loads, ret, last>>
route_vars == <<is_running, threads, http_log>>
llm_vars == <<groq_client, llm_ret>>
voice_vars == <<GEMINI_TTS_ENABLED, GROQ_TTS_ENABLED, tts_log, stt_ret, main>>
front_vars == <<route_vars, llm_vars, voice_vars>>
vars == <<ct_vars, x_vars, disk_vars, b_vars, serve_vars, front_vars>>

-----------------------------------------------------------------------------
(* Bounds of the model.                                                    *)

MaxLen == 3      \* longest text handed to chunk_text
MaxChars == 3    \* largest max_chars handed to chunk_text
MaxChunks == 2   \* most chunks an extraction yields

MaxIter == MaxLen + 2   \* cap on loop iterations of chunk_text in the model
MaxRequests == 4 \* most HTTP requests of one run of the Flask process
MaxQuestions == 3 \* largest num_questions asked of the question generator
MaxSays == 3      \* most tts_say calls of one run of the process
MaxHeard == 3     \* longest text a speech-to-text provider gives

-----------------------------------------------------------------------------
(* Python string helpers.                                                  *)

Chars == {"a", " ", "\n", "\r", "\t"}

\* str.isspace() on one character
IsSpace(c) == c \in {" ", "\n", "\r", "\t"}

Min(a, b) == IF a < b THEN a ELSE b
Max(a, b) == IF a > b THEN a ELSE b

\* s.replace(old, new) for one-character old and new
Replace(s, old, new) == [i \in 1..Len(s) |-> IF s[i] = old THEN new ELSE s[i]]

\* s[a:b] with Python's treatment of negative and out-of-range bounds
PySlice(s, a, b) ==
    LET n == Len(s)
        lo == IF a < 0 THEN Max(a + n, 0) ELSE Min(a, n)
        hi == IF b < 0 THEN Max(b + n, 0) ELSE Min(b, n)
    IN  IF lo >= hi THEN <<>> ELSE SubSeq(s, lo + 1, hi)

RECURSIVE LStrip(_)
LStrip(s) == IF s # <<>> /\ IsSpace(Head(s)) THEN LStrip(Tail(s)) ELSE s

RECURSIVE RStrip(_)
RStrip(s) ==
    IF s # <<>> /\ IsSpace(s[Len(s)]) THEN RStrip(SubSeq(s, 1, Len(s) - 1)) ELSE s

\* s.strip()
Strip(s) == RStrip(LStrip(s))

\* all texts of length 0..n over Chars
TextsUpTo(n) == UNION {[1..k -> Chars] : k \in 0..n}

-----------------------------------------------------------------------------
(* chunk_text, one loop iteration per step.                                *)

\* mutant of Normalise: only the newline is replaced, the carriage return is kept
NormaliseNewlineOnly(s) == Replace(s, "\n", " ")

\* line 55: text = text.replace("\r", " ").replace("\n", " ")
Normalise(s) == Replace(Replace(s, "\r", " "), "\n", " ")

\* line 61: end = min(start + max_chars, n)
WindowEnd(start, max_chars, n) == Min(start + max_chars, n)

\* line 62: chunk = text[start:end].strip()
WindowChunk(text, start, end) == Strip(PySlice(text, start, end))

\* mutant of AppendChunk: the `if chunk:` test is missing
AppendChunkUnchecked(res, chunk, source_name) ==
    Append(res, [text |-> chunk, source |-> source_name])

\* lines 63-67: if chunk: res.append({...})
AppendChunk(res, chunk, source_name) ==
    IF chunk # <<>> THEN Append(res, [text |-> chunk, source |-> source_name]) ELSE res

\* mutant of NextStart: the window advances one position too far
NextStartSkipping(end, overlap) == end - overlap + 1

\* mutant of NextStart: the next window starts one position early
NextStartEarly(end, overlap) == end - overlap - 1

\* line 70: start = end - overlap
NextStart(end, overlap) == end - overlap

ChunkEntry ==
    /\ ct_pc = "entry"
    /\ ct_text' = Normalise(ct_text)
    /\ ct_start' = 0
    /\ ct_res' = <<>>
    /\ ct_pc' = "while"
    /\ UNCHANGED <<ct_input, ct_source, ct_max, ct_overlap, ct_windows>>
    /\ UNCHANGED <<x_vars, disk_vars, b_vars, serve_vars, front_vars>>

ChunkIter ==
    /\ ct_pc = "while"
    /\ ct_start < Len(ct_text)
    /\ Len(ct_windows) < MaxIter
    /\ LET n == Len(ct_text)
           end == WindowEnd(ct_start, ct_max, n)
           chunk == WindowChunk(ct_text, ct_start, end)
       IN  /\ ct_res' = AppendChunk(ct_res, chunk, ct_source)
           /\ ct_windows' = Append(ct_windows, <<ct_start, end>>)
           /\ IF end = n
              THEN ct_pc' = "return" /\ ct_start' = ct_start
              ELSE ct_pc' = "while" /\ ct_start' = NextStart(end, ct_overlap)
    /\ UNCHANGED <<ct_input, ct_text, ct_source, ct_max, ct_overlap>>
    /\ UNCHANGED <<x_vars, disk_vars, b_vars, serve_vars, front_vars>>

ChunkExit ==
    /\ ct_pc = "while"
    /\ ~(ct_start < Len(ct_text))
    /\ ct_pc' = "return"
    /\ UNCHANGED <<ct_input, ct_text, ct_source, ct_max, ct_overlap, ct_start, ct_res, ct_windows>>
    /\ UNCHANGED <<x_vars, disk_vars, b_vars, serve_vars, front_vars>>

-----------------------------------------------------------------------------
(* extract_text_from_pdfs, one document per round: the document is read    *)
(* and handed to chunk_text, whose steps are the ones above, and the       *)
(* chunks it returns are appended to the list.                             *)

\* the text of k characters c
Fill(c, k) == [i \in 1..k |-> c]

\* sep.join(parts)
RECURSIVE JoinWith(_, _)
JoinWith(sep, parts) ==
    IF parts = <<>> THEN <<>>
    ELSE IF Len(parts) = 1 THEN parts[1]
    ELSE parts[1] \o sep \o JoinWith(sep, Tail(parts))

\* the defaults of chunk_text's max_chars and overlap parameters
DefaultMaxChars == 800
DefaultOverlap == 200

\* a page whose extract_text() returns text (None counts as ""), and one whose
\* extract_text() raises
Page(text) == [raises |-> FALSE, text |-> text]
BadPage == [raises |-> TRUE, text |-> <<>>]

\* the pages of the model: one without text, one of 500 characters, one that raises
Pages == {Page(<<>>), Page(Fill("a", 500)), BadPage}

PageLists == {<<>>} \cup [1..1 -> Pages] \cup [1..2 -> Pages]

\* a file of the books directory; readable: PdfReader can open it
Document(name, readable, pages) ==
    [name |-> name, path |-> <<"data/books", name>>, readable |-> readable,
     pages |-> pages]

Documents(name) ==
    {Document(name, FALSE, <<>>)} \cup {Document(name, TRUE, pl) : pl \in PageLists}

\* the sequences of files BOOKS_DIR.glob("*.pdf") can yield
Libraries ==
    {<<>>}
    \cup {<<d>> : d \in Documents("algo.pdf") \cup Documents("ds.pdf")}
    \cup {<<d1, d2>> : d1 \in Documents("algo.pdf"), d2 \in Documents("ds.pdf")}

\* lines 31-36: the texts of the pages in order, a page that raises leaving none
RECURSIVE PagesText(_)
PagesText(pages) ==
    IF pages = <<>> THEN <<>>
    ELSE (IF Head(pages).raises THEN <<>> ELSE <<Head(pages).text>>)
         \o PagesText(Tail(pages))

\* mutant of SourceName: the chunks are tagged str(pdf_path)
SourceNameFullPath(doc) == doc.path

\* line 38: source_name=pdf_path.name
SourceName(doc) == doc.name

\* lines 28-38: the next file is opened, its pages are read and joined, and
\* chunk_text(doc_text, source_name=pdf_path.name) is entered
ExtractOpen ==
    /\ x_pc = "loop"
    /\ x_books # <<>>
    /\ Head(x_books).readable
    /\ LET doc == Head(x_books)
           doc_text == JoinWith(<<"\n">>, PagesText(doc.pages))
       IN  /\ ct_pc' = "entry"
           /\ ct_input' = doc_text
           /\ ct_text' = doc_text
           /\ ct_source' = SourceName(doc)
    /\ ct_max' = DefaultMaxChars
    /\ ct_overlap' = DefaultOverlap
    /\ ct_start' = 0 /\ ct_res' = <<>> /\ ct_windows' = <<>>
    /\ x_pc' = "chunking"
    /\ UNCHANGED <<x_books, x_chunks, x_spans>>
    /\ UNCHANGED <<disk_vars, b_vars, serve_vars, front_vars>>

\* line 30: PdfReader(str(pdf_path)) raises on a file it cannot open; nothing in
\* extract_text_from_pdfs catches it
ExtractOpenFails ==
    /\ x_pc = "loop"
    /\ x_books # <<>>
    /\ ~Head(x_books).readable
    /\ x_pc' = "raised"
    /\ UNCHANGED <<x_books, x_chunks, x_spans>>
    /\ UNCHANGED <<ct_vars, disk_vars, b_vars, serve_vars, front_vars>>

\* line 39: chunks.extend(file_chunks), and on to the next file
ExtractExtend ==
    /\ x_pc = "chunking"
    /\ ct_pc = "return"
    /\ x_chunks' = x_chunks \o ct_res
    /\ x_spans' = Append(x_spans, [name |-> Head(x_books).name,
                                   first |-> Len(x_chunks) + 1,
                                   last |-> Len(x_chunks) + Len(ct_res)])
    /\ x_books' = Tail(x_books)
    /\ x_pc' = "loop"
    /\ UNCHANGED <<ct_vars, disk_vars, b_vars, serve_vars, front_vars>>

\* lines 41-42: return chunks
ExtractReturn ==
    /\ x_pc = "loop"
    /\ x_books = <<>>
    /\ x_pc' = "returned"
    /\ UNCHANGED <<x_books, x_chunks, x_spans>>
    /\ UNCHANGED <<ct_vars, disk_vars, b_vars, serve_vars, front_vars>>

-----------------------------------------------------------------------------
(* Embeddings.  A vector is a pair of integers; length 5 stands for 1.0.   *)

Letters == {"a", "b"}

\* number of positions of s holding c
RECURSIVE Count(_, _)
Count(s, c) == IF s = <<>> THEN 0 ELSE (IF Head(s) = c THEN 1 ELSE 0) + Count(Tail(s), c)

\* model.encode(text): the sentence-embedding model, a fixed function of the text.
\* The direction depends on which letters occur, the magnitude on the length.
Embed(s) ==
    LET na == Count(s, "a")
        nb == Count(s, "b")
        u == IF na > 0 /\ nb = 0 THEN <<3, 4>>
             ELSE IF nb > 0 /\ na = 0 THEN <<4, 3>>
             ELSE IF na > 0 /\ nb > 0 THEN <<5, 0>>
             ELSE <<0, 5>>
        m == Max(Len(s), 1)
    IN  <<m * u[1], m * u[2]>>

Dot(v, w) == v[1] * w[1] + v[2] * w[2]

\* the Euclidean length of v (the vectors of the model have integer length)
Norm(v) == CHOOSE k \in 0..(Dot(v, v) + 1) : k * k <= Dot(v, v) /\ (k + 1) * (k + 1) > Dot(v, v)

\* mutant of NormalizeL2: the vector is left as the model produced it
NormalizeL2Skipped(v) == v

\* faiss.normalize_L2 on one row: divide by the length (a zero row is left alone)
NormalizeL2(v) ==
    IF Norm(v) = 0 THEN v ELSE <<(v[1] * 5) \div Norm(v), (v[2] * 5) \div Norm(v)>>

\* mutant of IndexRows: the vectors are added in reverse list order
IndexRowsReversed(chunks) ==
    [i \in 1..Len(chunks) |-> NormalizeL2(Embed(chunks[Len(chunks) + 1 - i].text))]

\* build_index lines 84-93: encode every chunk text, normalise, add in list order
IndexRows(chunks) == [i \in 1..Len(chunks) |-> NormalizeL2(Embed(chunks[i].text))]

\* rag_service lines 56-57: encode the query and normalise it
QueryVector(topic) == NormalizeL2(Embed(topic))

\* row id (0-based) of the best remaining row: highest inner product, lowest id on a tie
BestOf(rows, q, left) ==
    CHOOSE i \in left : \A j \in left :
        \/ Dot(rows[i + 1], q) > Dot(rows[j + 1], q)
        \/ Dot(rows[i + 1], q) = Dot(rows[j + 1], q) /\ i <= j

RECURSIVE Ranked(_, _, _)
Ranked(rows, q, left) ==
    IF left = {} THEN <<>>
    ELSE LET b == BestOf(rows, q, left) IN <<b>> \o Ranked(rows, q, left \ {b})

\* index.search(query_emb, top_k)[1][0] of an IndexFlatIP: the ids of the top_k rows by
\* descending inner product, filled with -1 when the index holds fewer rows
IndexSearch(rows, q, top_k) ==
    LET r == Ranked(rows, q, 0..(Len(rows) - 1))
    IN  [j \in 1..top_k |-> IF j <= Len(r) THEN r[j] ELSE -1]

-----------------------------------------------------------------------------
(* The corpus and the artifacts of the vector_db directory.                *)

Absent == [state |-> "absent"]
Corrupt == [state |-> "corrupt"]
None == [state |-> "none"]

IndexFile(rows) == [state |-> "index", rows |-> rows]
ChunksFile(list) == [state |-> "chunks", list |-> list]

\* the i-th chunk of the books directory
ChunkAt(i) ==
    IF i % 2 = 1 THEN [text |-> <<"a">>, source |-> "algo.pdf"]
    ELSE [text |-> <<"b", "b">>, source |-> "ds.pdf"]

\* extract_text_from_pdfs(): the chunk list of the books directory at the time of a
\* build; the directory holds no book at first and books are added to it
Corpora == { [i \in 1..k |-> ChunkAt(i)] : k \in 0..MaxChunks }

-----------------------------------------------------------------------------------------------------------------------------------------------------
(* What the caller of an operation sees when it ends; query is the vector  *)
(* the call handed to index.search (<<>> when it made no search).          *)

NoTopic == [kind |-> "none"]
Str(s) == [kind |-> "str", val |-> s]

Returned(op, topic, n, value, ids) ==
    [op |-> op, topic |-> topic, n |-> n, exc |-> "none", path |-> "",
     value |-> value, ids |-> ids, query |-> <<>>]

Threw(op, topic, n, exc, path) ==
    [op |-> op, topic |-> topic, n |-> n, exc |-> exc, path |-> path,
     value |-> <<>>, ids |-> <<>>, query |-> <<>>]

NoCall == Returned("none", NoTopic, 0, <<>>, <<>>)

BuildEnded(exc) == Threw("build", NoTopic, 0, exc, "")

-----------------------------------------------------------------------------
(* build_index, one statement group per step.  The script runs in its own  *)
(* process; a run that stops part-way leaves the directory as its last     *)
(* completed write left it, so retrieval calls are taken between runs.     *)

\* lines 76-79: chunks = extract_text_from_pdfs()
BuildExtract ==
    /\ b_pc = "idle"
    /\ \E c \in Corpora : b_chunks' = c
    /\ b_index' = <<>>
    /\ b_pc' = "extracted"
    /\ ret' = NoCall
    /\ UNCHANGED <<ct_vars, x_vars, disk_vars, cache_chunks, cache_index, cache_model, loads, last, front_vars>>

\* lines 81-93: encode, dim = embeddings.shape[1], normalize_L2, IndexFlatIP, add.
\* encode([]) yields an array without a second axis, so shape[1] raises IndexError.
BuildEmbed ==
    /\ b_pc = "extracted"
    /\ IF b_chunks = <<>>
       THEN /\ b_pc' = "idle"
            /\ ret' = BuildEnded("IndexError")
            /\ UNCHANGED <<b_chunks, b_index>>
       ELSE /\ b_index' = IndexRows(b_chunks)
            /\ b_pc' = "indexed"
            /\ UNCHANGED <<b_chunks, ret>>
    /\ UNCHANGED <<ct_vars, x_vars, disk_vars, cache_chunks, cache_index, cache_model, loads, last, front_vars>>

\* lines 95-96: faiss.write_index(index, str(INDEX_PATH))
BuildWriteIndex ==
    /\ b_pc = "indexed"
    /\ disk_index' = IndexFile(b_index)
    /\ b_pc' = "index_written"
    /\ UNCHANGED <<b_chunks, b_index, disk_chunks, ct_vars, x_vars, serve_vars, front_vars>>

\* lines 99-103: with open(TEXTS_PATH, "wb") as f: pickle.dump(chunks, f)
BuildWriteChunks ==
    /\ b_pc = "index_written"
    /\ disk_chunks' = ChunksFile(b_chunks)
    /\ b_pc' = "idle"
    /\ b_chunks' = <<>>
    /\ b_index' = <<>>
    /\ ret' = BuildEnded("none")
    /\ UNCHANGED <<disk_index, ct_vars, x_vars, cache_chunks, cache_index, cache_model, loads, last, front_vars>>

\* an exception (or the process dying) before the next statement takes effect:
\* nothing in build_index catches it or undoes what was written
BuildFail ==
    /\ b_pc \in {"extracted", "indexed", "index_written"}
    /\ b_pc' = "idle"
    /\ b_chunks' = <<>>
    /\ b_index' = <<>>
    /\ ret' = BuildEnded("Exception")
    /\ UNCHANGED <<disk_vars, ct_vars, x_vars, cache_chunks, cache_index, cache_model, loads, last, front_vars>>

\* an I/O error in the middle of a write: the file being written is left truncated
\* (open(..., "wb") has already emptied TEXTS_PATH when pickle.dump runs)
BuildFailInWrite ==
    /\ b_pc \in {"indexed", "index_written"}
    /\ IF b_pc = "indexed"
       THEN disk_index' = Corrupt /\ UNCHANGED disk_chunks
       ELSE disk_chunks' = Corrupt /\ UNCHANGED disk_index
    /\ b_pc' = "idle"
    /\ b_chunks' = <<>>
    /\ b_index' = <<>>
    /\ ret' = BuildEnded("OSError")
    /\ UNCHANGED <<ct_vars, x_vars, cache_chunks, cache_index, cache_model, loads, last, front_vars>>

-----
(* rag_service: the memoised loaders.  Each returns what the call sees:    *)
(* exc ("none" or the exception raised), path (the path the message        *)
(* names), val (the object returned), loaded (the loader body ran to its   *)
(* return, so lru_cache stores val).                                       *)

Raised(exc, path) == [exc |-> exc, path |-> path, val |-> None, loaded |-> FALSE]

\* mutant of LoadChunks: the @lru_cache decorator is missing
LoadChunksUncached(cache, disk) ==
    IF disk = Absent THEN Raised("RuntimeError", "TEXTS_PATH")
    ELSE IF disk = Corrupt THEN Raised("UnpicklingError", "")
    ELSE [exc |-> "none", path |-> "", val |-> disk, loaded |-> TRUE]

\* _load_chunks() under @lru_cache(maxsize=1)
LoadChunks(cache, disk) ==
    IF cache # None THEN [exc |-> "none", path |-> "", val |-> cache, loaded |-> FALSE]
    ELSE IF disk = Absent THEN Raised("RuntimeError", "TEXTS_PATH")
    ELSE IF disk = Corrupt THEN Raised("UnpicklingError", "")
    ELSE [exc |-> "none", path |-> "", val |-> disk, loaded |-> TRUE]

\* _load_index() under @lru_cache(maxsize=1)
LoadIndex(cache, disk) ==
    IF cache # None THEN [exc |-> "none", path |-> "", val |-> cache, loaded |-> FALSE]
    ELSE IF disk = Absent THEN Raised("RuntimeError", "INDEX_PATH")
    ELSE IF disk = Corrupt THEN Raised("FaissException", "")
    ELSE [exc |-> "none", path |-> "", val |-> disk, loaded |-> TRUE]

\* _load_model() under @lru_cache(maxsize=1); available: SentenceTransformer(MODEL_NAME)
\* can construct the model
LoadModel(cached, available) ==
    IF cached THEN [exc |-> "none", path |-> "", val |-> TRUE, loaded |-> FALSE]
    ELSE IF ~available THEN Raised("OSError", "")
    ELSE [exc |-> "none", path |-> "", val |-> TRUE, loaded |-> TRUE]

\* the count of loader-body completions, capped for the model
Bump(n, loaded) == IF loaded THEN Min(n + 1, 2) ELSE n

-----------------------------------------------------------------------------
(* rag_service: the retrieval calls, each a whole call.                    *)

\* the queries the calls are made with: None, "", " ", "a", " b"
Topics == { NoTopic, Str(<<>>), Str(<<" ">>), Str(<<"a">>), Str(<<" ", "b">>) }

\* mutant of StrippedTopic: the .strip() is missing
UnstrippedTopic(topic) == IF topic.kind = "none" THEN <<>> ELSE topic.val

\* line 48: topic = (topic or "").strip()
StrippedTopic(topic) == Strip(IF topic.kind = "none" THEN <<>> ELSE topic.val)

\* mutant of SelectChunks: the test is `i < len(chunks)`, so the filler id -1 selects
\* chunks[-1], the last chunk
RECURSIVE SelectChunksNoLowerBound(_, _)
SelectChunksNoLowerBound(idxs, chunks) ==
    IF idxs = <<>> THEN <<>>
    ELSE LET i == Head(idxs)
         IN  (IF i < 0 /\ -i <= Len(chunks) THEN <<chunks[Len(chunks) + 1 + i]>>
              ELSE IF 0 <= i /\ i < Len(chunks) THEN <<chunks[i + 1]>>
              ELSE <<>>)
             \o SelectChunksNoLowerBound(Tail(idxs), chunks)

\* lines 62-65: for i in idxs: if 0 <= i < len(chunks): selected.append(chunks[i])
RECURSIVE SelectChunks(_, _)
SelectChunks(idxs, chunks) ==
    IF idxs = <<>> THEN <<>>
    ELSE LET i == Head(idxs)
         IN  (IF 0 <= i /\ i < Len(chunks) THEN <<chunks[i + 1]>> ELSE <<>>)
             \o SelectChunks(Tail(idxs), chunks)

\* mutant of SampleSize: the min() is missing
SampleSizeUnclamped(num_chunks, n) == num_chunks

\* line 86: k = min(num_chunks, len(chunks))
SampleSize(num_chunks, n) == Min(num_chunks, n)

\* line 87: random.sample(range(n), k=k) raises ValueError for a sample larger than
\* the population or negative
SampleRaises(n, k) == k < 0 \/ k > n

\* line 87: the lists random.sample(range(n), k=k) can return otherwise
RandomSample(n, k) ==
    { s \in [1..k -> 0..(n - 1)] : \A i, j \in 1..k : i # j => s[i] # s[j] }

\* line 88: [chunks[i] for i in indices]
PickChunks(indices, chunks) == [j \in 1..Len(indices) |-> chunks[indices[j] + 1]]

\* mutant of Cached: what a loader returns is not kept
CachedDropped(old, l) == old

\* what a loader call leaves in its cache
Cached(old, l) == IF l.loaded THEN l.val ELSE old

\* the module state of rag_service as a call that loaded nothing leaves it
Untouched ==
    [chunks |-> cache_chunks, index |-> cache_index, model |-> cache_model,
     loads |-> loads]

\* the outcome of a call: what it raised or returned, the vector it searched with,
\* and the module state after it
Outcome(exc, path, value, ids, query, after) ==
    [exc |-> exc, path |-> path, value |-> value, ids |-> ids, query |-> query,
     after |-> after]

\* get_relevant_chunks_with_sources(topic, top_k)
Relevant(topic, top_k, available) ==
    LET t == StrippedTopic(topic)
        lc == LoadChunks(cache_chunks, disk_chunks)
        li == LoadIndex(cache_index, disk_index)
        lm == LoadModel(cache_model, available)
        cc == Cached(cache_chunks, lc)
        ci == Cached(cache_index, li)
    IN  IF t = <<>>
        THEN Outcome("none", "", <<>>, <<>>, <<>>, Untouched)
        ELSE IF lc.exc # "none"
        THEN Outcome(lc.exc, lc.path, <<>>, <<>>, <<>>, Untouched)
        ELSE IF li.exc # "none"
        THEN Outcome(li.exc, li.path, <<>>, <<>>, <<>>,
                     [Untouched EXCEPT
                         !.chunks = cc,
                         !.loads = [loads EXCEPT !.chunks = Bump(@, lc.loaded)]])
        ELSE IF lm.exc # "none"
        THEN Outcome(lm.exc, lm.path, <<>>, <<>>, <<>>,
                     [Untouched EXCEPT
                         !.chunks = cc,
                         !.index = ci,
                         !.loads = [loads EXCEPT !.chunks = Bump(@, lc.loaded),
                                                 !.index = Bump(@, li.loaded)]])
        ELSE LET q == QueryVector(t)
                 idxs == IndexSearch(li.val.rows, q, top_k)
             IN  Outcome("none", "", SelectChunks(idxs, lc.val.list), idxs, q,
                         [chunks |-> cc, index |-> ci, model |-> TRUE,
                          loads |-> [loads EXCEPT !.chunks = Bump(@, lc.loaded),
                                                  !.index = Bump(@, li.loaded),
                                                  !.model = Bump(@, lm.loaded)]])

\* mutant of AfterSample: the sample is taken by shuffling the list in place
AfterShuffle(chunks, indices) ==
    [j \in 1..Len(chunks) |-> chunks[Len(chunks) + 1 - j]]

\* line 87: random.sample draws from range(len(chunks)) and leaves chunks as it is
AfterSample(chunks, indices) == chunks

\* get_random_chunks_with_sources(num_chunks): the outcomes the sampling allows
RandomOutcomes(num_chunks) ==
    LET lc == LoadChunks(cache_chunks, disk_chunks)
        cc == Cached(cache_chunks, lc)
        after == [Untouched EXCEPT
                     !.chunks = cc,
                     !.loads = [loads EXCEPT !.chunks = Bump(@, lc.loaded)]]
    IN  IF lc.exc # "none"
        THEN {Outcome(lc.exc, lc.path, <<>>, <<>>, <<>>, Untouched)}
        ELSE LET n == Len(lc.val.list)
                 k == SampleSize(num_chunks, n)
             IN  IF n = 0
                 THEN {Outcome("none", "", <<>>, <<>>, <<>>, after)}
                 ELSE IF SampleRaises(n, k)
                 THEN {Outcome("ValueError", "", <<>>, <<>>, <<>>, after)}
                 ELSE {Outcome("none", "", PickChunks(indices, lc.val.list), indices,
                               <<>>,
                               [after EXCEPT
                                   !.chunks.list = AfterSample(@, indices)]) :
                          indices \in RandomSample(n, k)}

\* the record of a call that ended with outcome o
Ended(op, topic, n, o) ==
    IF o.exc = "none"
    THEN [Returned(op, topic, n, o.value, o.ids) EXCEPT !.query = o.query]
    ELSE Threw(op, topic, n, o.exc, o.path)

\* the module state of rag_service after a call with outcome o
Commit(o) ==
    /\ cache_chunks' = o.after.chunks
    /\ cache_index' = o.after.index
    /\ cache_model' = o.after.model
    /\ loads' = o.after.loads

GetRelevant ==
    \E topic \in Topics, top_k \in 1..(MaxChunks + 1), available \in BOOLEAN :
        LET o == Relevant(topic, top_k, available)
        IN  ret' = Ended("relevant", topic, top_k, o) /\ Commit(o)

GetRelevantCall ==
    b_pc = "idle" /\ GetRelevant /\ UNCHANGED <<last, ct_vars, x_vars, disk_vars, b_vars, front_vars>>

\* the same call, the latest call that returned being remembered
GetRelevantTracked ==
    /\ b_pc = "idle"
    /\ GetRelevant
    /\ last' = (IF ret'.exc = "none" THEN ret' ELSE last)
    /\ UNCHANGED <<ct_vars, x_vars, disk_vars, b_vars, front_vars>>

GetRandom ==
    \E num_chunks \in 0..(MaxChunks + 1) :
        \E o \in RandomOutcomes(num_chunks) :
            ret' = Ended("random", NoTopic, num_chunks, o) /\ Commit(o)

GetRandomCall ==
    b_pc = "idle" /\ GetRandom /\ UNCHANGED <<last, ct_vars, x_vars, disk_vars, b_vars, front_vars>>

\* "\n\n".join(c["text"] for c in chunks)
JoinTexts(chunks) ==
    JoinWith(<<"\n", "\n">>, [i \in 1..Len(chunks) |-> chunks[i].text])

\* a returned str: one piece of text, with no other field
TextOnly(s) == <<[text |-> s]>>

\* the outcome of a call that returns the joined text of the chunks of outcome o
AsText(o) == IF o.exc = "none" THEN [o EXCEPT !.value = TextOnly(JoinTexts(@))] ELSE o

\* get_relevant_context(topic, top_k)
GetRelevantContext ==
    \E topic \in Topics, top_k \in 1..(MaxChunks + 1), available \in BOOLEAN :
        LET o == Relevant(topic, top_k, available)
        IN  ret' = Ended("relevant_context", topic, top_k, AsText(o)) /\ Commit(o)

GetRelevantContextCall ==
    /\ b_pc = "idle"
    /\ GetRelevantContext
    /\ UNCHANGED <<last, ct_vars, x_vars, disk_vars, b_vars, front_vars>>

\* get_random_context(num_chunks)
GetRandomContext ==
    \E num_chunks \in 0..(MaxChunks + 1) :
        \E o \in RandomOutcomes(num_chunks) :
            ret' = Ended("random_context", NoTopic, num_chunks, AsText(o)) /\ Commit(o)

GetRandomContextCall ==
    /\ b_pc = "idle"
    /\ GetRandomContext
    /\ UNCHANGED <<last, ct_vars, x_vars, disk_vars, b_vars, front_vars>>

-----------------------------------------------------------------------------
(* rag_metrics: the script loads the two files when it starts and searches *)
(* them; one run of the script with one query is one step.                 *)

\* TOP_K
MetricsTopK == 5

\* lines 33-50: the module body, then retrieve_chunks(query) with the default top_k
MetricsRetrieve ==
    \E topic \in {t \in Topics : t.kind = "str"}, available \in BOOLEAN :
        /\ ret' =
             IF disk_index = Absent \/ disk_chunks = Absent
             THEN Threw("metrics", topic, MetricsTopK, "RuntimeError", "")
             ELSE IF ~available
             THEN Threw("metrics", topic, MetricsTopK, "OSError", "")
             ELSE IF disk_index = Corrupt
             THEN Threw("metrics", topic, MetricsTopK, "FaissException", "")
             ELSE IF disk_chunks = Corrupt
             THEN Threw("metrics", topic, MetricsTopK, "UnpicklingError", "")
             ELSE LET q == Embed(topic.val)
                      idxs == IndexSearch(disk_index.rows, q, MetricsTopK)
                  IN  [Returned("metrics", topic, MetricsTopK,
                                SelectChunks(idxs, disk_chunks.list), idxs)
                          EXCEPT !.query = q]
        /\ UNCHANGED <<cache_chunks, cache_index, cache_model, loads, last, front_vars>>

MetricsRetrieveCall ==
    b_pc = "idle" /\ MetricsRetrieve /\ UNCHANGED <<ct_vars, x_vars, disk_vars, b_vars>>

-----------------------------------------------------------------------------
(* interview_service: start_interview and evaluate_answer, each a whole    *)
(* call.  The questions and the evaluation come from the language-model    *)
(* chain of gemini_service; only the fields set here are kept.             *)

\* the chunk counts the two calls ask for
StartChunks == 12
EvalTopK == 8

\* "data structures" and "RAG_RANDOM"
DefaultTopic ==
    Str(<<"d", "a", "t", "a", " ", "s", "t", "r", "u", "c", "t", "u", "r", "e", "s">>)
RagRandom == Str(<<"R", "A", "G", "_", "R", "A", "N", "D", "O", "M">>)

\* the file names of the model in sorted() order
SourceOrder == <<"algo.pdf", "ds.pdf">>

\* mutant of SortedSources: the sources as the chunks carry them, neither sorted nor
\* de-duplicated
SourcesAsRetrieved(chunks) == [i \in 1..Len(chunks) |-> chunks[i].source]

\* sorted({c["source"] for c in chunks})
SortedSources(chunks) ==
    SelectSeq(SourceOrder, LAMBDA s : \E i \in 1..Len(chunks) : chunks[i].source = s)

\* generate_questions_from_context(...): num_questions questions numbered from 1
Generated(num_questions) == [i \in 1..num_questions |-> [id |-> i]]

\* lines 55-56: for q in questions: q["sources"] = sources
AttachSources(questions, sources) ==
    [i \in 1..Len(questions) |-> [id |-> questions[i].id, sources |-> sources]]

\* a topic argument that is not a str (a number, a list)
NotStr == [kind |-> "other"]

\* mutant of TopicOrDefault: only the isinstance test is made, "" is searched for
TopicOrDefaultIfNotStr(topic) == IF topic.kind # "str" THEN DefaultTopic ELSE topic

\* lines 36-37: if not topic or not isinstance(topic, str): topic = "data structures"
TopicOrDefault(topic) ==
    IF topic.kind # "str" \/ topic.val = <<>> THEN DefaultTopic ELSE topic

\* the record of a start_interview call; searched: the topic handed to the search
\* (None when no search was made); o: the outcome of the retrieval call; context: the
\* text handed to the question generator (none when it was not called)
StartEnded(topic, n, random, searched, o, r, context, generated) ==
    [op |-> "start", topic |-> topic, n |-> n, random |-> random,
     searched |-> searched, found |-> o.exc = "none" /\ o.value # <<>>,
     retrieval |-> o.exc,
     exc |-> r.exc, path |-> r.path, value |-> r.value, ids |-> r.ids,
     query |-> r.query, context |-> context, generated |-> generated]

\* the <<topic, random_from_rag>> pairs start_interview is called with (the topic
\* is not read when random_from_rag is set)
StartArgs ==
    {<<t, FALSE>> : t \in Topics} \cup {<<t, TRUE>> : t \in {NoTopic, Str(<<"a">>)}}

\* the same and a topic that is not a str
StartArgsAnyType == StartArgs \cup {<<NotStr, FALSE>>}

\* start_interview(topic, num_questions, random_from_rag), the arguments taken from
\* calls
StartInterview(calls) ==
    \E args \in calls, num_questions \in {2} :
      \E available \in (IF args[2] THEN {TRUE} ELSE BOOLEAN) :
        LET topic == args[1]
            random == args[2]
            asked == TopicOrDefault(topic)
            searched == IF random THEN NoTopic ELSE asked
            topic_used == IF random THEN RagRandom ELSE asked
            outs == IF random THEN RandomOutcomes(StartChunks)
                    ELSE {Relevant(asked, StartChunks, available)}
        IN  \E o \in outs :
              /\ Commit(o)
              /\ ret' =
                   IF o.exc # "none"
                   THEN StartEnded(topic, num_questions, random, searched, o,
                                   Threw("start", topic, num_questions, o.exc, o.path),
                                   <<>>, FALSE)
                   ELSE IF o.value = <<>>
                   THEN StartEnded(topic, num_questions, random, searched, o,
                                   Threw("start", topic, num_questions,
                                         "RuntimeError", ""),
                                   <<>>, FALSE)
                   ELSE LET sources == SortedSources(o.value)
                            questions == AttachSources(Generated(num_questions),
                                                       sources)
                        IN  StartEnded(topic, num_questions, random, searched, o,
                                       Ended("start", topic, num_questions,
                                             [o EXCEPT !.value =
                                                 [topic |-> topic_used,
                                                  questions |-> questions,
                                                  global_sources |-> sources]]),
                                       JoinTexts(o.value), TRUE)

StartInterviewCall ==
    /\ b_pc = "idle"
    /\ StartInterview(StartArgs)
    /\ UNCHANGED <<last, ct_vars, x_vars, disk_vars, b_vars, front_vars>>

StartInterviewAnyTypeCall ==
    /\ b_pc = "idle"
    /\ StartInterview(StartArgsAnyType)
    /\ UNCHANGED <<last, ct_vars, x_vars, disk_vars, b_vars, front_vars>>

\* the answers a caller passes: None or "" and a text
Answers == {<<>>, <<"a">>}

\* the <<ideal_answer, user_answer>> pairs evaluate_answer is called with
AnswerPairs == {p \in Answers \X Answers : p[1] # <<>> \/ p[2] # <<>>}

\* mutant of Incomplete: only question_text is required
IncompleteQuestionOnly(question, ideal, user) ==
    question.kind = "none" \/ question.val = <<>>

\* line 74: not question_text or not ideal_answer or not user_answer
Incomplete(question, ideal, user) ==
    question.kind = "none" \/ question.val = <<>> \/ ideal = <<>> \/ user = <<>>

\* the record of an evaluate_answer call
EvalEnded(question, ideal, user, r, context, evaluated) ==
    [op |-> "evaluate", topic |-> question, n |-> 1, ideal |-> ideal, user |-> user,
     exc |-> r.exc, path |-> r.path, value |-> r.value, ids |-> r.ids,
     query |-> r.query, context |-> context, evaluated |-> evaluated]

\* evaluate_answer(question_id, question_text, ideal_answer, user_answer)
EvaluateAnswer ==
    \E question \in Topics, answers \in AnswerPairs, available \in BOOLEAN :
        LET ideal == answers[1]
            user == answers[2]
        IN
        IF Incomplete(question, ideal, user)
        THEN /\ ret' = EvalEnded(question, ideal, user,
                                 Threw("evaluate", question, 1, "ValueError", ""),
                                 <<>>, FALSE)
             /\ UNCHANGED <<cache_chunks, cache_index, cache_model, loads>>
        ELSE LET o == Relevant(question, EvalTopK, available)
             IN  /\ Commit(o)
                 /\ ret' =
                      IF o.exc # "none"
                      THEN EvalEnded(question, ideal, user,
                                     Threw("evaluate", question, 1, o.exc, o.path),
                                     <<>>, FALSE)
                      ELSE EvalEnded(question, ideal, user,
                                     Ended("evaluate", question, 1,
                                           [o EXCEPT !.value =
                                               [question_id |-> 1,
                                                sources |-> SortedSources(@)]]),
                                     JoinTexts(o.value), TRUE)

EvaluateAnswerCall ==
    b_pc = "idle" /\ EvaluateAnswer /\ UNCHANGED <<last, ct_vars, x_vars, disk_vars, b_vars, front_vars>>

-----------------------------------------------------------------------------
(* routes/interview.py: one request per step.  The controller object comes *)
(* from scripts/mic_voice_interview_api.py; what is modelled of it is what *)
(* the routes rely on: start_interview() is True when it started the       *)
(* interview thread and False when one is running, end_interview() stops   *)
(* it, and either may raise.                                               *)

\* interview_controller.start_interview(); fails: the call raises
ControllerStart(running, fails) ==
    IF fails THEN [raised |-> TRUE, success |-> FALSE, running |-> running, started |-> 0]
    ELSE IF running
    THEN [raised |-> FALSE, success |-> FALSE, running |-> TRUE, started |-> 0]
    ELSE [raised |-> FALSE, success |-> TRUE, running |-> TRUE, started |-> 1]

\* mutant of StartStatus: the route answers 200 whatever start_interview() returned
StartStatusAlwaysOk(r) == IF r.raised THEN 500 ELSE 200

\* lines 10-30: 200 on success, 400 otherwise, 500 on an exception
StartStatus(r) == IF r.raised THEN 500 ELSE IF r.success THEN 200 ELSE 400

\* a request answered: the route, the status, and for the history whether an
\* interview was running when it came, whether the controller raised, and the
\* interview threads alive after it
Answered(route, status, was_running, raised, alive) ==
    [route |-> route, status |-> status, was_running |-> was_running,
     raised |-> raised, alive |-> alive]

\* POST /start
PostStart ==
    /\ Len(http_log) < MaxRequests
    /\ \E fails \in BOOLEAN :
          LET r == ControllerStart(is_running, fails)
          IN  /\ is_running' = r.running
              /\ threads' = threads + r.started
              /\ http_log' = Append(http_log,
                     Answered("start", StartStatus(r), is_running, r.raised,
                              threads + r.started))
    /\ UNCHANGED <<ct_vars, x_vars, disk_vars, b_vars, serve_vars, llm_vars, voice_vars>>

\* GET /status, lines 33-41
GetStatus ==
    /\ Len(http_log) < MaxRequests
    /\ \E fails \in BOOLEAN :
          http_log' = Append(http_log,
              Answered("status", IF fails THEN 500 ELSE 200, is_running, fails, threads))
    /\ UNCHANGED <<is_running, threads>>
    /\ UNCHANGED <<ct_vars, x_vars, disk_vars, b_vars, serve_vars, llm_vars, voice_vars>>

\* POST /end, lines 44-52
PostEnd ==
    /\ Len(http_log) < MaxRequests
    /\ \E fails \in BOOLEAN :
          IF fails
          THEN /\ http_log' = Append(http_log,
                      Answered("end", 500, is_running, TRUE, threads))
               /\ UNCHANGED <<is_running, threads>>
          ELSE /\ is_running' = FALSE
               /\ threads' = 0
               /\ http_log' = Append(http_log,
                      Answered("end", 200, is_running, FALSE, 0))
    /\ UNCHANGED <<ct_vars, x_vars, disk_vars, b_vars, serve_vars, llm_vars, voice_vars>>

\* the interview thread comes to its end by itself
InterviewEnds ==
    /\ is_running
    /\ is_running' = FALSE
    /\ threads' = 0
    /\ UNCHANGED http_log
    /\ UNCHANGED <<ct_vars, x_vars, disk_vars, b_vars, serve_vars, llm_vars, voice_vars>>

-----------------------------------------------------------------------------
(* gemini_service: the language-model chains, each call a whole step.  A   *)
(* provider call either raises or returns text; the text is told by what   *)
(* json.loads makes of it.                                                 *)

Raises == [kind |-> "raises"]
NoText == [kind |-> "text", json |-> "empty"]
NotJson == [kind |-> "text", json |-> "invalid"]
Json(v) == [kind |-> "text", json |-> "value", value |-> v]

\* JSON values: arrays, objects (a function from their keys), numbers, other scalars
JList(items) == [type |-> "list", items |-> items]
JObject(fields) == [type |-> "object", fields |-> fields]
JNumber(n) == [type |-> "number", val |-> n]
JString == [type |-> "string"]

\* an element of a questions array: a dict with the id the model gave it, or not a dict
QuestionDict(id) == [dict |-> TRUE, id |-> id, question |-> "q", ideal_answer |-> "a"]
NotADict == [dict |-> FALSE, id |-> 0, question |-> "", ideal_answer |-> ""]

\* the replies of a provider asked for questions
QuestionReplies ==
    {Raises, NoText, NotJson,
     Json(JList(<<>>)), Json(JList(<<QuestionDict(7), QuestionDict(7)>>)),
     Json(JList(<<QuestionDict(1), NotADict>>)),
     Json(JObject(<<>>)), Json(JObject([score |-> JNumber(1)])), Json(JNumber(5))}

\* what one stage of a chain comes to: a value to return, or on to the next stage
Return(v) == [done |-> TRUE, value |-> v]
Fallthrough == [done |-> FALSE, value |-> <<>>]

\* lines 228-236 and 247-253: raw text that is empty falls through, as does every
\* exception: text that does not parse, and data whose elements do not take
\* q["id"] = i (elements that are not dicts, the keys of an object, a number)
QuestionsFrom(reply) ==
    IF reply.kind = "raises" \/ reply.json # "value" THEN Fallthrough
    ELSE LET v == reply.value
         IN  IF v.type = "list"
             THEN IF \A i \in 1..Len(v.items) : v.items[i].dict
                  THEN Return([i \in 1..Len(v.items) |-> [v.items[i] EXCEPT !.id = i]])
                  ELSE Fallthrough
             ELSE IF v.type = "object" /\ DOMAIN v.fields = {}
             THEN Return(<<>>)
             ELSE Fallthrough

\* the contexts of the model, each given by its sentences of more than 20 characters
\* (lines 114-120): none, one, two
Contexts == {<<>>, <<"s1">>, <<"s1", "s2">>}

\* mutant of FallbackQuestions: the ids are numbered from 0
FallbackQuestionsFromZero(sentences, num_questions, topic) ==
    LET ss == IF sentences = <<>> THEN <<"basics of the topic">> ELSE sentences
    IN  [i \in 1..num_questions |->
            [dict |-> TRUE, id |-> i - 1,
             question |-> ss[((i - 1) % Len(ss)) + 1],
             ideal_answer |-> "Refer to the textbook explanation of this concept."]]

\* _fallback_questions_from_context: one question per i in range(num_questions) from
\* sentences[i % len(sentences)], the sentence about the topic when there is none
FallbackQuestions(sentences, num_questions, topic) ==
    LET ss == IF sentences = <<>> THEN <<"basics of the topic">> ELSE sentences
    IN  [i \in 1..num_questions |->
            [dict |-> TRUE, id |-> i,
             question |-> ss[((i - 1) % Len(ss)) + 1],
             ideal_answer |-> "Refer to the textbook explanation of this concept."]]

\* the record of a gemini_service call: the providers called in order with their
\* replies, the stage whose value was returned, and the value
LlmEnded(op, args, calls, used, value) ==
    [op |-> op, args |-> args, calls |-> calls, exc |-> "none", used |-> used,
     value |-> value]

\* generate_questions_from_context(context_text, num_questions, topic)
GenerateQuestions ==
    \E context \in Contexts, num_questions \in 0..MaxQuestions,
       gemini \in QuestionReplies, groq \in QuestionReplies :
        LET args == [context |-> context, num_questions |-> num_questions]
            g == QuestionsFrom(gemini)
            q == QuestionsFrom(groq)
            asked_gemini == <<[provider |-> "gemini", reply |-> gemini]>>
            asked_groq == IF groq_client THEN <<[provider |-> "groq", reply |-> groq]>>
                          ELSE <<>>
        IN  llm_ret' =
              IF g.done THEN LlmEnded("generate", args, asked_gemini, "gemini", g.value)
              ELSE IF groq_client /\ q.done
              THEN LlmEnded("generate", args, asked_gemini \o asked_groq, "groq", q.value)
              ELSE LlmEnded("generate", args, asked_gemini \o asked_groq, "local",
                            FallbackQuestions(context, num_questions, DefaultTopic))

GenerateQuestionsCall ==
    /\ GenerateQuestions
    /\ UNCHANGED <<groq_client, route_vars, voice_vars>>
    /\ UNCHANGED <<ct_vars, x_vars, disk_vars, b_vars, serve_vars>>

\* the values a model puts under "score" and "reliability_score": numbers in and out
\* of range, and something int() does not take
Scores == {JNumber(-5), JNumber(50), JNumber(150), JString}

\* the JSON objects Groq answers an evaluation request with
EvalObjects ==
    {JObject(<<>>)}
    \cup {JObject([score |-> sc, reliability_score |-> rl, feedback |-> fb]) :
             sc \in Scores, rl \in {JNumber(70), JNumber(150), JString},
             fb \in {"", "Good."}}

\* the replies of Groq asked for an evaluation
GroqEvalReplies ==
    {Raises, NoText, NotJson, Json(JList(<<>>))} \cup {Json(o) : o \in EvalObjects}

\* a text reply of Gemini: digits holds the number after "Score:" when the text has one
TextEval(empty, digits) == [kind |-> "text", empty |-> empty, digits |-> digits]

\* the replies of Gemini asked for an evaluation in the text format
GeminiEvalReplies ==
    {Raises, TextEval(TRUE, <<>>), TextEval(FALSE, <<>>), TextEval(FALSE, <<50>>),
     TextEval(FALSE, <<150>>)}

\* data.get(key, default)
Get(fields, key, default) == IF key \in DOMAIN fields THEN fields[key] ELSE default

\* mutant of Clamp: only the upper limit is applied
ClampAbove(v) == Min(100, v)

\* lines 354, 357, 438: max(0, min(100, v))
Clamp(v) == Max(0, Min(100, v))

\* the dict an evaluation returns
Evaluation(score, feedback, reliability, reasoning) ==
    [score |-> score, feedback |-> feedback, missing_points |-> <<>>,
     reliability_score |-> reliability, grounded_in_context |-> FALSE,
     reasoning |-> reasoning]

\* lines 341-381: the Groq stage; every exception inside it (text that is not JSON,
\* data without .get, a score int() refuses) is caught and falls through
EvalFromGroq(reply) ==
    IF reply.kind = "raises" \/ reply.json # "value" THEN Fallthrough
    ELSE IF reply.value.type # "object" THEN Fallthrough
    ELSE LET fields == reply.value.fields
             sc == Get(fields, "score", JNumber(0))
             rl == Get(fields, "reliability_score", JNumber(0))
             fb == Get(fields, "feedback", "")
         IN  IF sc.type # "number" \/ rl.type # "number" THEN Fallthrough
             ELSE Return(Evaluation(
                      Clamp(sc.val),
                      IF fb = ""
                      THEN "Evaluation completed, but no detailed feedback provided."
                      ELSE fb,
                      Clamp(rl.val), ""))

\* lines 423-499: the Gemini stage; _parse_text_eval on the text when there is one
EvalFromGemini(reply) ==
    IF reply.kind = "raises" \/ reply.empty THEN Fallthrough
    ELSE Return(Evaluation(
             IF reply.digits = <<>> THEN 0 ELSE Clamp(reply.digits[1]),
             "Evaluation completed, but detailed feedback could not be parsed.",
             0, "Fallback Gemini evaluation used because Groq evaluation failed."))

\* lines 502-509
SafeDefault ==
    Evaluation(0, "Evaluation failed due to an internal error. Please try again.",
               0, "Both Groq and Gemini evaluation failed.")

\* evaluate_with_gemini(question_text, ideal_answer, user_answer, context_text)
EvaluateWithGemini ==
    \E groq \in GroqEvalReplies, gemini \in GeminiEvalReplies :
        LET q == EvalFromGroq(groq)
            g == EvalFromGemini(gemini)
            asked_groq == IF groq_client THEN <<[provider |-> "groq", reply |-> groq]>>
                          ELSE <<>>
            asked_gemini == <<[provider |-> "gemini", reply |-> gemini]>>
        IN  llm_ret' =
              IF groq_client /\ q.done
              THEN LlmEnded("evaluate", <<>>, asked_groq, "groq", q.value)
              ELSE IF g.done
              THEN LlmEnded("evaluate", <<>>, asked_groq \o asked_gemini, "gemini",
                            g.value)
              ELSE LlmEnded("evaluate", <<>>, asked_groq \o asked_gemini, "default",
                            SafeDefault)

EvaluateWithGeminiCall ==
    /\ EvaluateWithGemini
    /\ UNCHANGED <<groq_client, route_vars, voice_vars>>
    /\ UNCHANGED <<ct_vars, x_vars, disk_vars, b_vars, serve_vars>>

-----------------------------------------------------------------------------
(* scripts/mic_voice_interview.py: speech out and in.                      *)

\* the texts handed to tts_say: None, "", " ", a word
SayTexts == {NoTopic, Str(<<>>), Str(<<" ">>), Str(<<"w">>)}

\* not text or not text.strip()
NothingToSay(text) == text.kind = "none" \/ Strip(text.val) = <<>>

\* one provider asked in a tts_say call, and how it went: "ok", "false" (eleven_tts
\* returned False), "raises"
Stage(provider, outcome) == [provider |-> provider, outcome |-> outcome]

\* mutant of FlagAfterStage: a failure leaves the flag as it was
FlagKept(flag, outcome) == flag

\* lines 243-246 and 267-270: the flag of a provider after its stage was reached;
\* the except branch of an enabled provider sets it to False
FlagAfterStage(flag, outcome) == flag /\ outcome = "ok"

\* tts_say(text) with the flags as they are and the outcome each provider would
\* have: the providers asked in order, and the flags afterwards
TtsSay(text, gemini_enabled, groq_enabled, eleven, gemini, groq, local) ==
    LET asked_eleven == <<Stage("elevenlabs", eleven)>>
        asked_gemini == IF gemini_enabled THEN <<Stage("gemini", gemini)>> ELSE <<>>
        asked_groq == IF groq_enabled THEN <<Stage("groq", groq)>> ELSE <<>>
        asked_local == <<Stage("local", local)>>
        gemini_after == FlagAfterStage(gemini_enabled, gemini)
        groq_after == FlagAfterStage(groq_enabled, groq)
    IN  IF NothingToSay(text)
        THEN [calls |-> <<>>, gemini |-> gemini_enabled, groq |-> groq_enabled]
        ELSE IF eleven = "ok"
        THEN [calls |-> asked_eleven, gemini |-> gemini_enabled, groq |-> groq_enabled]
        ELSE IF gemini_enabled /\ gemini = "ok"
        THEN [calls |-> asked_eleven \o asked_gemini, gemini |-> gemini_enabled,
              groq |-> groq_enabled]
        ELSE IF groq_enabled /\ groq = "ok"
        THEN [calls |-> asked_eleven \o asked_gemini \o asked_groq,
              gemini |-> gemini_after, groq |-> groq_enabled]
        ELSE [calls |-> asked_eleven \o asked_gemini \o asked_groq \o asked_local,
              gemini |-> gemini_after, groq |-> groq_after]

\* a tts_say call of the process
TtsSayCall ==
    /\ Len(tts_log) < MaxSays
    /\ \E text \in SayTexts, eleven \in {"ok", "false", "raises"},
          gemini \in {"ok", "raises"}, groq \in {"ok", "raises"},
          local \in {"ok", "raises"} :
          LET r == TtsSay(text, GEMINI_TTS_ENABLED, GROQ_TTS_ENABLED, eleven, gemini,
                          groq, local)
          IN  /\ tts_log' = Append(tts_log, [text |-> text, calls |-> r.calls])
              /\ GEMINI_TTS_ENABLED' = r.gemini
              /\ GROQ_TTS_ENABLED' = r.groq
    /\ UNCHANGED <<stt_ret, main>>
    /\ UNCHANGED <<ct_vars, x_vars, disk_vars, b_vars, serve_vars, route_vars, llm_vars>>

\* the texts a speech-to-text provider gives: letters and spaces
Heard == UNION {[1..k -> {"a", " "}] : k \in 0..MaxHeard}

\* eleven_stt(wav_bytes): (text or "").strip() (elevenlabs_service.py line 77)
ElevenSttReplies == {Raises} \cup {Str(Strip(t)) : t \in Heard}

\* resp.text of Gemini: None or text; or the request raises
GeminiSttReplies == {Raises, NoTopic} \cup {Str(t) : t \in Heard}

\* transcription.text of Groq Whisper; or the request raises
GroqSttReplies == {Raises} \cup {Str(t) : t \in Heard}

\* `if text:` and `if resp.text:` (lines 289, 318): a non-empty string
Truthy(reply) == reply.kind = "str" /\ reply.val # <<>>

\* the record of an stt_transcribe call: the providers asked in order with their
\* replies, the exception that left the call, the value returned
SttEnded(calls, exc, value) ==
    [op |-> "stt", calls |-> calls, exc |-> exc, value |-> value]

\* stt_transcribe(wav_bytes); writable says whether temp_answer.wav can be written
\* (lines 327-329, outside every try)
SttTranscribe ==
    \E eleven \in ElevenSttReplies, gemini \in GeminiSttReplies,
       groq \in GroqSttReplies, writable \in BOOLEAN :
        LET asked_eleven == <<[provider |-> "elevenlabs", reply |-> eleven]>>
            asked_gemini == <<[provider |-> "gemini", reply |-> gemini]>>
            asked_groq == <<[provider |-> "groq", reply |-> groq]>>
        IN  stt_ret' =
              IF Truthy(eleven)
              THEN SttEnded(asked_eleven, "none", Strip(eleven.val))
              ELSE IF Truthy(gemini)
              THEN SttEnded(asked_eleven \o asked_gemini, "none", Strip(gemini.val))
              ELSE IF ~writable
              THEN SttEnded(asked_eleven \o asked_gemini, "OSError", <<>>)
              ELSE IF groq.kind = "str"
              THEN SttEnded(asked_eleven \o asked_gemini \o asked_groq, "none",
                            Strip(groq.val))
              ELSE SttEnded(asked_eleven \o asked_gemini \o asked_groq, "none", <<>>)

SttTranscribeCall ==
    /\ SttTranscribe
    /\ UNCHANGED <<GEMINI_TTS_ENABLED, GROQ_TTS_ENABLED, tts_log, main>>
    /\ UNCHANGED <<ct_vars, x_vars, disk_vars, b_vars, serve_vars, route_vars, llm_vars>>

-----------------------------------------------------------------------------
(* scripts/mic_voice_interview.py: the two question rounds of main().      *)

HR_REQUIRED == 3
TECH_REQUIRED == 3
HrMaxLoops == 30   \* hr_max_loops
TechMaxLoops == 50 \* tech_max_loops

\* what the candidate is heard to say, word by word
Transcripts == {<<>>, <<"pass">>, <<"heaps">>, <<"no", "pass">>, <<"so", "sorry">>}

\* is_pass_answer(transcript): "pass this question" anywhere, "pass" as the first
\* word, "sorry" anywhere
IsPassAnswer(transcript) ==
    /\ transcript # <<>>
    /\ \/ \E i \in 1..(Len(transcript) - 2) :
             SubSeq(transcript, i, i + 2) = <<"pass", "this", "question">>
       \/ transcript[1] = "pass"
       \/ \E i \in 1..Len(transcript) : transcript[i] = "sorry"

\* what the last pass through a loop body did
Step(did, transcript, evaluated, score) ==
    [did |-> did, transcript |-> transcript, evaluated |-> evaluated, score |-> score]

\* the locals of the HR round (lines 531-534); hr_pool by its length
HrFrame(hr_answered, hr_max_loops, hr_index, hr_pool, iterations, step) ==
    [pc |-> "hr", hr_answered |-> hr_answered, hr_max_loops |-> hr_max_loops,
     hr_index |-> hr_index, hr_pool |-> hr_pool, iterations |-> iterations,
     step |-> step]

\* the locals of the technical round (lines 592-597); questions_buffer by its length
TechFrame(tech_answered, tech_max_loops, total_score, q_index, buffer, iterations, step) ==
    [pc |-> "tech", tech_answered |-> tech_answered, tech_max_loops |-> tech_max_loops,
     total_score |-> total_score, q_index |-> q_index, buffer |-> buffer,
     iterations |-> iterations, step |-> step]

TechStart == TechFrame(0, TechMaxLoops, 0, 0, 0, 0, Step("entered", <<>>, "no", 0))

\* line 536
HrLoopRuns(hr_answered, hr_max_loops) == hr_answered < HR_REQUIRED /\ hr_max_loops > 0

\* mutant of TechLoopRuns: one answer more is asked for
TechLoopRunsOneMore(tech_answered, tech_max_loops) ==
    tech_answered <= TECH_REQUIRED /\ tech_max_loops > 0

\* line 599
TechLoopRuns(tech_answered, tech_max_loops) ==
    tech_answered < TECH_REQUIRED /\ tech_max_loops > 0

\* the flags after the tts_say calls of one pass: each call leaves them as TtsSay
\* says, and what several calls can do one call can do as well
SaidFlags(gemini_enabled, groq_enabled) ==
    {<<r.gemini, r.groq>> :
        r \in {TtsSay(Str(<<"w">>), gemini_enabled, groq_enabled, o[1], o[2], o[3], "ok") :
                 o \in {"ok", "false"} \X {"ok", "raises"} \X {"ok", "raises"}}}

Speaks ==
    \E flags \in SaidFlags(GEMINI_TTS_ENABLED, GROQ_TTS_ENABLED) :
        /\ GEMINI_TTS_ENABLED' = flags[1]
        /\ GROQ_TTS_ENABLED' = flags[2]

\* stt_transcribe as main sees it: a transcript, or the exception of lines 327-329
HeardOutcomes == {[exc |-> "OSError", value |-> <<>>]}
                 \cup {[exc |-> "none", value |-> t] : t \in Transcripts}

\* pick_hr_questions and start_interview as main sees them: an exception, or the
\* number of questions returned: none, one, the three asked for (line 608)
Refills == {[exc |-> "raised", n |-> 0]} \cup {[exc |-> "none", n |-> n] : n \in {0, 1, 3}}

\* the questions left when there is no refill
Kept(n) == [exc |-> "none", n |-> n]

\* evaluate_answer as main sees it when it does not refuse the arguments
Evaluations == {[exc |-> "raised", score |-> 0], [exc |-> "none", score |-> 50]}

\* lines 555-579: the body of the HR loop from the question on; mic says whether
\* record_from_mic returned
HrStep(mic, heard) ==
    IF ~mic \/ heard.exc # "none" THEN Step("raised", <<>>, "no", 0)
    ELSE IF IsPassAnswer(heard.value) THEN Step("pass", heard.value, "no", 0)
    ELSE Step("counted", heard.value, "no", 0)

HrSteps == {HrStep(o[1], o[2]) : o \in BOOLEAN \X HeardOutcomes}

\* lines 640-698: the body of the technical loop from the question on
TechStep(qtext, ideal, mic, heard, evaluation) ==
    IF ~mic \/ heard.exc # "none" THEN Step("raised", <<>>, "no", 0)
    ELSE IF IsPassAnswer(heard.value) THEN Step("pass", heard.value, "no", 0)
    ELSE IF Incomplete(qtext, ideal, heard.value) \/ evaluation.exc # "none"
    THEN Step("error", heard.value, "raised", 0)
    ELSE Step("counted", heard.value, "returned", evaluation.score)

TechSteps ==
    {TechStep(o[1], o[2], o[3], o[4], o[5]) :
        o \in {NoTopic, Str(<<"q">>)} \X Answers \X BOOLEAN \X HeardOutcomes
               \X Evaluations}

\* lines 536-580: one pass through the body of the HR loop; a break, as the end of
\* the loop, goes on to the technical round
HrIteration ==
    /\ main.pc = "hr"
    /\ HrLoopRuns(main.hr_answered, main.hr_max_loops)
    /\ LET exhausted == main.hr_index >= main.hr_pool
       IN  \E refill \in (IF exhausted THEN Refills ELSE {Kept(main.hr_pool)}),
              st \in HrSteps :
              main' =
                IF refill.exc # "none" \/ refill.n = 0
                THEN TechStart
                ELSE [main EXCEPT
                        !.pc = IF st.did = "raised" THEN "raised" ELSE @,
                        !.hr_max_loops = @ - 1,
                        !.iterations = @ + 1,
                        !.hr_pool = refill.n,
                        !.hr_index = (IF exhausted THEN 0 ELSE @) + 1,
                        !.hr_answered = IF st.did = "counted" THEN @ + 1 ELSE @,
                        !.step = st]
    /\ Speaks
    /\ UNCHANGED <<tts_log, stt_ret>>
    /\ UNCHANGED <<ct_vars, x_vars, disk_vars, b_vars, serve_vars, route_vars, llm_vars>>

\* lines 536 and 582-597: the HR loop ends and the technical round is announced
HrRoundEnds ==
    /\ main.pc = "hr"
    /\ ~HrLoopRuns(main.hr_answered, main.hr_max_loops)
    /\ main' = TechStart
    /\ Speaks
    /\ UNCHANGED <<tts_log, stt_ret>>
    /\ UNCHANGED <<ct_vars, x_vars, disk_vars, b_vars, serve_vars, route_vars, llm_vars>>

\* lines 599-717: one pass through the body of the technical loop
TechIteration ==
    /\ main.pc = "tech"
    /\ TechLoopRuns(main.tech_answered, main.tech_max_loops)
    /\ LET exhausted == main.q_index >= main.buffer
       IN  \E refill \in (IF exhausted THEN Refills ELSE {Kept(main.buffer)}),
              st \in TechSteps :
              main' =
                IF refill.exc # "none" \/ refill.n = 0
                THEN [main EXCEPT !.pc = "done",
                                  !.tech_max_loops = @ - 1,
                                  !.iterations = @ + 1,
                                  !.step = Step("stopped", <<>>, "no", 0)]
                ELSE [main EXCEPT
                        !.pc = IF st.did = "raised" THEN "raised" ELSE @,
                        !.tech_max_loops = @ - 1,
                        !.iterations = @ + 1,
                        !.buffer = refill.n,
                        !.q_index = (IF exhausted THEN 0 ELSE @) + 1,
                        !.tech_answered = IF st.did = "counted" THEN @ + 1 ELSE @,
                        !.total_score = @ + st.score,
                        !.step = st]
    /\ Speaks
    /\ UNCHANGED <<tts_log, stt_ret>>
    /\ UNCHANGED <<ct_vars, x_vars, disk_vars, b_vars, serve_vars, route_vars, llm_vars>>

\* line 599: the technical loop ends
TechRoundEnds ==
    /\ main.pc = "tech"
    /\ ~TechLoopRuns(main.tech_answered, main.tech_max_loops)
    /\ main' = [main EXCEPT !.pc = "done"]
    /\ UNCHANGED <<GEMINI_TTS_ENABLED, GROQ_TTS_ENABLED, tts_log, stt_ret>>
    /\ UNCHANGED <<ct_vars, x_vars, disk_vars, b_vars, serve_vars, route_vars, llm_vars>>

-----------------------------------------------------------------------------
(* Initial states and specifications.                                      *)

\* the vector_db directory as config.py creates it (empty) or as an earlier
\* successful build left it
DiskBuilt ==
    {<<Absent, Absent>>}
    \cup {<<IndexFile(IndexRows(c)), ChunksFile(c)>> : c \in Corpora \ {<<>>}}

\* the vector_db directory as a serving process can find it: as above, or a
\* directory that holds only one of the two files
DiskAtStart ==
    DiskBuilt
    \cup {<<Absent, ChunksFile(c)>> : c \in Corpora \ {<<>>}}
    \cup {<<IndexFile(IndexRows(c)), Absent>> : c \in Corpora \ {<<>>}}

ChunkIdle ==
    /\ ct_pc = "return" /\ ct_input = <<>> /\ ct_text = <<>> /\ ct_source = "algo.pdf"
    /\ ct_max = 1 /\ ct_overlap = 0 /\ ct_start = 0 /\ ct_res = <<>> /\ ct_windows = <<>>

ExtractIdle == x_pc = "off" /\ x_books = <<>> /\ x_chunks = <<>> /\ x_spans = <<>>

BuildIdle == b_pc = "idle" /\ b_chunks = <<>> /\ b_index = <<>>

\* the Flask process before its first request
RoutesIdle == is_running = FALSE /\ threads = 0 /\ http_log = <<>>

\* gemini_service imported, no call made
LlmIdle == groq_client = TRUE /\ llm_ret = [op |-> "none"]

\* mic_voice_interview imported (lines 70-71), nothing said or heard, main not entered
VoiceIdle ==
    /\ GEMINI_TTS_ENABLED = TRUE /\ GROQ_TTS_ENABLED = TRUE
    /\ tts_log = <<>>
    /\ stt_ret = [op |-> "none"]
    /\ main = [pc |-> "off"]

FrontIdle == RoutesIdle /\ LlmIdle /\ VoiceIdle

ServeFresh ==
    /\ cache_chunks = None /\ cache_index = None /\ cache_model = FALSE
    /\ loads = [chunks |-> 0, index |-> 0, model |-> 0]
    /\ ret = NoCall
    /\ last = NoCall

\* a call chunk_text(text, source_name, max_chars, overlap) about to run
InitChunk ==
    /\ ct_pc = "entry"
    /\ ct_text \in TextsUpTo(MaxLen)
    /\ ct_input = ct_text
    /\ ct_source \in {"algo.pdf", "ds.pdf"}
    /\ ct_max \in 1..MaxChars
    /\ ct_overlap \in (-1)..MaxChars
    /\ ct_start = 0 /\ ct_res = <<>> /\ ct_windows = <<>>
    /\ ExtractIdle
    /\ disk_index = Absent /\ disk_chunks = Absent
    /\ BuildIdle /\ ServeFresh /\ FrontIdle

NextChunk == ChunkEntry \/ ChunkIter \/ ChunkExit

SpecChunk == InitChunk /\ [][NextChunk]_vars

\* the same call run by an interpreter that keeps executing the loop while it can
SpecChunkFair == InitChunk /\ [][NextChunk]_vars /\ WF_vars(NextChunk)

\* extract_text_from_pdfs() about to run over a books directory
InitExtract ==
    /\ ChunkIdle
    /\ x_pc = "loop" /\ x_books \in Libraries /\ x_chunks = <<>> /\ x_spans = <<>>
    /\ disk_index = Absent /\ disk_chunks = Absent
    /\ BuildIdle /\ ServeFresh /\ FrontIdle

NextExtract ==
    \/ ExtractOpen \/ ExtractOpenFails \/ ExtractExtend \/ ExtractReturn
    \/ ChunkEntry \/ ChunkIter \/ ChunkExit

\* chunk_text called on its own or by extract_text_from_pdfs
SpecExtract == (InitChunk \/ InitExtract) /\ [][NextExtract]_vars

\* a fresh serving process and the build script over one vector_db directory
InitRag ==
    /\ ChunkIdle /\ ExtractIdle
    /\ \E d \in DiskAtStart : disk_index = d[1] /\ disk_chunks = d[2]
    /\ BuildIdle /\ ServeFresh /\ FrontIdle

NextRag ==
    \/ BuildExtract \/ BuildEmbed \/ BuildWriteIndex \/ BuildWriteChunks
    \/ BuildFail \/ BuildFailInWrite
    \/ GetRelevantCall \/ GetRandomCall

SpecRag == InitRag /\ [][NextRag]_vars

\* the same, started on a directory that only build_index has written
InitBuilt ==
    /\ ChunkIdle /\ ExtractIdle
    /\ \E d \in DiskBuilt : disk_index = d[1] /\ disk_chunks = d[2]
    /\ BuildIdle /\ ServeFresh /\ FrontIdle

SpecBuilt == InitBuilt /\ [][NextRag]_vars

\* every reader of the vector_db directory: the retrieval calls, the calls that
\* return joined text, and the rag_metrics script
NextReaders ==
    \/ BuildExtract \/ BuildEmbed \/ BuildWriteIndex \/ BuildWriteChunks
    \/ BuildFail \/ BuildFailInWrite
    \/ GetRelevantCall \/ GetRandomCall
    \/ GetRelevantContextCall \/ GetRandomContextCall
    \/ MetricsRetrieveCall

SpecReaders == InitRag /\ [][NextReaders]_vars

\* the interview service over the retrieval calls
NextService ==
    \/ BuildExtract \/ BuildEmbed \/ BuildWriteIndex \/ BuildWriteChunks
    \/ BuildFail \/ BuildFailInWrite
    \/ GetRelevantCall \/ GetRandomCall
    \/ StartInterviewCall \/ EvaluateAnswerCall

SpecService == InitRag /\ [][NextService]_vars

\* searches only, each remembered until the next one
NextRepeat ==
    \/ BuildExtract \/ BuildEmbed \/ BuildWriteIndex \/ BuildWriteChunks
    \/ BuildFail \/ BuildFailInWrite
    \/ GetRelevantTracked

SpecRepeat == InitRag /\ [][NextRepeat]_vars

\* the chunk list of a books directory one chunk longer than those rebuilt above: its
\* first and its last chunk come from the same book
Shelf == [i \in 1..(MaxChunks + 1) |-> ChunkAt(i)]

\* a fresh serving process over a directory as above or over the build of Shelf
InitInterview ==
    /\ ChunkIdle /\ ExtractIdle
    /\ \E d \in DiskAtStart \cup {<<IndexFile(IndexRows(Shelf)), ChunksFile(Shelf)>>} :
          disk_index = d[1] /\ disk_chunks = d[2]
    /\ BuildIdle /\ ServeFresh /\ FrontIdle

NextInterview == StartInterviewAnyTypeCall \/ EvaluateAnswerCall

\* the interview service on its own, no build running
SpecInterview == InitInterview /\ [][NextInterview]_vars

\* the Flask process started on a built directory
InitRoutes ==
    /\ ChunkIdle /\ ExtractIdle
    /\ \E d \in DiskBuilt : disk_index = d[1] /\ disk_chunks = d[2]
    /\ BuildIdle /\ ServeFresh /\ FrontIdle

NextRoutes == PostStart \/ GetStatus \/ PostEnd \/ InterviewEnds

SpecRoutes == InitRoutes /\ [][NextRoutes]_vars

\* a process that has imported mic_voice_interview and speaks
InitTts ==
    /\ ChunkIdle /\ ExtractIdle
    /\ disk_index = Absent /\ disk_chunks = Absent
    /\ BuildIdle /\ ServeFresh /\ FrontIdle

NextTts == TtsSayCall

SpecTts == InitTts /\ [][NextTts]_vars

\* a process that has imported mic_voice_interview and listens
InitStt == InitTts

NextStt == SttTranscribeCall

SpecStt == InitStt /\ [][NextStt]_vars

\* main() at the start of the HR round, the HR questions loaded or not (lines 520-534)
InitMain ==
    /\ ChunkIdle /\ ExtractIdle
    /\ disk_index = Absent /\ disk_chunks = Absent
    /\ BuildIdle /\ ServeFresh /\ RoutesIdle /\ LlmIdle
    /\ GEMINI_TTS_ENABLED = TRUE /\ GROQ_TTS_ENABLED = TRUE
    /\ tts_log = <<>>
    /\ stt_ret = [op |-> "none"]
    /\ \E hr_pool \in {0, 3} :
          main = HrFrame(0, HrMaxLoops, 0, hr_pool, 0, Step("entered", <<>>, "no", 0))

NextMain == HrIteration \/ HrRoundEnds \/ TechIteration \/ TechRoundEnds

\* main runs on: no statement of the two loops blocks for ever
SpecMain == InitMain /\ [][NextMain]_vars /\ WF_vars(NextMain)

\* a process that has imported gemini_service, with or without a Groq client
InitLlm ==
    /\ ChunkIdle /\ ExtractIdle
    /\ disk_index = Absent /\ disk_chunks = Absent
    /\ BuildIdle /\ ServeFresh /\ RoutesIdle /\ VoiceIdle
    /\ groq_client \in BOOLEAN /\ llm_ret = [op |-> "none"]

NextLlm == GenerateQuestionsCall \/ EvaluateWithGeminiCall

SpecLlm == InitLlm /\ [][NextLlm]_vars

-----------------------------------------------------------------------------
(* Properties of chunk_text (checked under SpecChunk).                     *)

ValidParams == 0 <= ct_overlap /\ ct_overlap < ct_max

\* number of positions two windows <<start, end>> share
Overlap(w1, w2) == Max(0, Min(w1[2], w2[2]) - Max(w1[1], w2[1]))

\* C1: for 0 <= overlap < max_chars, when chunk_text returns on a text of length n,
\* the windows [start, end) it visited start at 0, end at n, leave no position of
\* [0, n) uncovered (each window starts no later than the previous one ends), and
\* two consecutive windows share at most overlap positions.
C1_WindowsCover ==
    (ct_pc = "return" /\ ValidParams) =>
        LET n == Len(ct_text)
            w == ct_windows
        IN  /\ n = 0 => w = <<>>
            /\ n > 0 => /\ w # <<>>
                        /\ w[1][1] = 0
                        /\ w[Len(w)][2] = n
            /\ \A i \in 1..Len(w) : 0 <= w[i][1] /\ w[i][1] < w[i][2] /\ w[i][2] <= n
            /\ \A i \in 1..(Len(w) - 1) :
                  /\ w[i + 1][1] <= w[i][2]
                  /\ w[i + 1][1] > w[i][1]
                  /\ Overlap(w[i], w[i + 1]) <= ct_overlap
            /\ \A p \in 0..(n - 1) : \E i \in 1..Len(w) : w[i][1] <= p /\ p < w[i][2]

\* a return after several windows that overlap
C1_Witness ==
    /\ ct_pc = "return" /\ ValidParams /\ ct_overlap > 0
    /\ Len(ct_windows) >= 2
    /\ Overlap(ct_windows[1], ct_windows[2]) = ct_overlap

AllSpace(s) == \A i \in 1..Len(s) : IsSpace(s[i])

\* the windows visited so far whose characters are not all whitespace
InkWindows ==
    { i \in 1..Len(ct_windows) :
        ~AllSpace(PySlice(ct_text, ct_windows[i][1], ct_windows[i][2])) }

\* C2: whatever the text and the parameters, every element of res has a text that is
\* not empty and neither begins nor ends with whitespace, and res holds exactly one
\* element per window that is not all whitespace (an all-whitespace window adds none).
C2_NoEmptyChunk ==
    /\ \A i \in 1..Len(ct_res) :
          LET t == ct_res[i].text
          IN  t # <<>> /\ ~IsSpace(t[1]) /\ ~IsSpace(t[Len(t)])
    /\ ct_pc # "entry" => Len(ct_res) = Cardinality(InkWindows)

\* a return where an all-whitespace window was dropped and another window kept
C2_Witness ==
    /\ ct_pc = "return"
    /\ ct_res # <<>>
    /\ Len(ct_res) < Len(ct_windows)

\* an iteration of the loop that goes round again
LoopsAgain == ct_pc = "while" /\ ct_pc' = "while" /\ ct_windows' # ct_windows

\* C11: chunk_text cannot run forever whatever max_chars and overlap are (overlap >=
\* max_chars and overlap < 0 included): a window that would fail to advance is guarded
\* against, so every iteration that goes round the loop again starts the next window
\* strictly after the start of the window it has just taken.
C11_AlwaysAdvances == [][LoopsAgain => ct_start' > ct_start]_vars

\* C12: for 0 <= overlap < max_chars chunk_text terminates on every text of length n:
\* an iteration either reaches end = n and returns, or sets start = end - overlap,
\* strictly greater than the previous start; so there are at most n iterations and
\* the call returns.
C12_Terminates ==
    /\ [][(ValidParams /\ ct_pc = "while" /\ ct_windows' # ct_windows) =>
            LET w == ct_windows'[Len(ct_windows')]
            IN  \/ ct_pc' = "return" /\ w[2] = Len(ct_text)
                \/ /\ ct_pc' = "while"
                   /\ ct_start' = w[2] - ct_overlap
                   /\ ct_start' > ct_start]_vars
    /\ [](ValidParams => Len(ct_windows) <= Len(ct_text))
    /\ (ValidParams => <>(ct_pc = "return"))

\* a return after as many iterations as the text has characters
C12_Witness ==
    /\ ct_pc = "return" /\ ValidParams
    /\ Len(ct_text) = MaxLen
    /\ Len(ct_windows) = Len(ct_text)

\* text with every newline and carriage return replaced by a space
Replaced(s) == [i \in 1..Len(s) |-> IF s[i] \in {"\n", "\r"} THEN " " ELSE s[i]]

NoNewline(s) == \A i \in 1..Len(s) : s[i] \notin {"\n", "\r"}

\* the window that produced the k-th element of res: the k-th window that is not all
\* whitespace
WindowOf(k) ==
    CHOOSE i \in InkWindows : Cardinality({j \in InkWindows : j <= i}) = k

\* C13: every chunk chunk_text returns has as text the whitespace-trimmed slice
\* [start, min(start + max_chars, n)) of the input with every newline and carriage
\* return replaced by a space; so its length is at most max_chars and it holds no
\* "\n" and no "\r".
C13_ChunkIsTrimmedSlice ==
    ct_pc = "return" =>
        \A k \in 1..Len(ct_res) :
            LET w == ct_windows[WindowOf(k)]
                t == ct_res[k].text
            IN  /\ 0 <= w[1]
                /\ w[2] = Min(w[1] + ct_max, Len(ct_input))
                /\ t = Strip(SubSeq(Replaced(ct_input), w[1] + 1, w[2]))
                /\ Len(t) <= ct_max
                /\ NoNewline(t)

\* a returned chunk with a space inside it where the input had a carriage return
C13_Witness ==
    /\ ct_pc = "return"
    /\ \E i \in 1..Len(ct_input) : ct_input[i] = "\r"
    /\ \E k \in 1..Len(ct_res) :
          LET w == ct_windows[WindowOf(k)]
              t == ct_res[k].text
          IN  /\ Len(t) = w[2] - w[1]
              /\ \E j \in 1..Len(t) : t[j] = " " /\ ct_input[w[1] + j] = "\r"

\* C14: every chunk chunk_text(text, source_name) produces carries source_name as its
\* source, the chunks of a call that returns are in increasing order of the start of
\* their windows, and extract_text_from_pdfs keeps the chunks of each document
\* together, in the order the documents were read, each tagged with the file name of
\* its document.
C14_SourceAndOrder ==
    /\ \A k \in 1..Len(ct_res) : ct_res[k].source = ct_source
    /\ ct_pc = "return" =>
          /\ \A k \in 1..Len(ct_res) :
                LET w == ct_windows[WindowOf(k)]
                IN  ct_res[k].text = Strip(SubSeq(ct_text, w[1] + 1, w[2]))
          /\ \A k \in 1..(Len(ct_res) - 1) :
                ct_windows[WindowOf(k)][1] < ct_windows[WindowOf(k + 1)][1]
    /\ x_pc = "chunking" => ct_source = Head(x_books).name
    /\ \A d \in 1..Len(x_spans) :
          /\ x_spans[d].first = (IF d = 1 THEN 1 ELSE x_spans[d - 1].last + 1)
          /\ x_spans[d].last >= x_spans[d].first - 1
          /\ x_spans[d].last <= Len(x_chunks)
          /\ \A i \in x_spans[d].first..x_spans[d].last :
                x_chunks[i].source = x_spans[d].name
    /\ Len(x_chunks) = (IF x_spans = <<>> THEN 0 ELSE x_spans[Len(x_spans)].last)
    /\ \A i, j, k \in 1..Len(x_chunks) :
          (i < j /\ j < k /\ x_chunks[i].source = x_chunks[k].source) =>
              x_chunks[j].source = x_chunks[i].source

\* an extraction that returned the chunks of two documents, several for the first
C14_Witness ==
    /\ x_pc = "returned"
    /\ Len(x_spans) = 2
    /\ x_spans[1].last >= 2
    /\ x_spans[2].last > x_spans[1].last
    /\ x_chunks[1].source # x_chunks[Len(x_chunks)].source

\* the characters of the pages of a document whose extract_text() returns
RECURSIVE ReadableLength(_)
ReadableLength(pages) ==
    IF pages = <<>> THEN 0
    ELSE (IF Head(pages).raises THEN 0 ELSE Len(Head(pages).text))
         + ReadableLength(Tail(pages))

\* C22: during extraction a failure on one item, a page whose extract_text() raises
\* or a document that cannot be read, is skipped and the rest goes on: the
\* extraction never ends in an exception, the text of every other page of a document
\* with a bad page is still handed to chunk_text, and an extraction that returns
\* has gone through every document after the one that failed.
C22_FailureIsolated ==
    /\ x_pc # "raised"
    /\ x_pc = "chunking" => Len(ct_input) >= ReadableLength(Head(x_books).pages)
    /\ x_pc = "returned" => x_books = <<>>

-----------------------------------------------------------------------------
(* Properties of the build and of retrieval (checked under SpecRag).       *)

Present(f) == f # Absent /\ f # Corrupt

\* the chunk list the serving process holds
Loaded == cache_chunks.list

\* row i of the index is the normalised embedding of the text of chunk i
Aligned(rows, list) ==
    /\ Len(rows) = Len(list)
    /\ \A i \in 1..Len(list) : rows[i] = NormalizeL2(Embed(list[i].text))

\* C3: when a run of build_index has ended without an exception, the index file holds
\* as many rows as the chunk-list file holds chunks, and row i is the (normalised)
\* embedding of the text of chunk i, for every i.
C3_RowsMatchChunks ==
    ret = BuildEnded("none") =>
        /\ Present(disk_index) /\ Present(disk_chunks)
        /\ Aligned(disk_index.rows, disk_chunks.list)

\* a successful build of a corpus of several chunks with different embeddings
C3_Witness ==
    /\ ret = BuildEnded("none")
    /\ Len(disk_chunks.list) >= 2
    /\ disk_index.rows[1] # disk_index.rows[2]

\* C4: a rebuild replaces the two files atomically: whenever no run of build_index is
\* under way (also after a run that failed at any step, such as between the two
\* writes), the index file and the chunk-list file on disk belong to one build.
C4_RebuildAtomic ==
    (b_pc = "idle" /\ Present(disk_index) /\ Present(disk_chunks)) =>
        Aligned(disk_index.rows, disk_chunks.list)

\* C5: a get_random_chunks_with_sources(k) call that got its chunk list (N chunks)
\* does not raise and returns exactly min(k, N) chunks, the chunks at pairwise
\* distinct indices of the full list; so k > N yields N chunks.
C5_RandomSample ==
    (ret.op = "random" /\ cache_chunks # None) =>
        /\ ret.exc = "none"
        /\ Len(ret.value) = Min(ret.n, Len(Loaded))
        /\ Len(ret.ids) = Len(ret.value)
        /\ \A i \in 1..Len(ret.ids) :
              /\ ret.ids[i] \in 0..(Len(Loaded) - 1)
              /\ ret.value[i] = Loaded[ret.ids[i] + 1]
        /\ \A i, j \in 1..Len(ret.ids) : i # j => ret.ids[i] # ret.ids[j]

\* a call asking for more chunks than there are, which returned all of them
C5_Witness ==
    /\ ret.op = "random" /\ ret.exc = "none" /\ cache_chunks # None
    /\ ret.n > Len(Loaded)
    /\ Len(ret.value) = Len(Loaded)
    /\ Len(Loaded) >= 2

\* an empty, None or whitespace-only query
Blank(topic) == topic.kind = "none" \/ AllSpace(topic.val)

\* C6: a get_relevant_chunks_with_sources call with an empty, None or whitespace-only
\* query returns the empty list without raising, and loads nothing: the caches
\* and the load counts are as before the call, whatever the files on disk.
C6_BlankQuery ==
    [][(ret'.op = "relevant" /\ Blank(ret'.topic)) =>
          /\ ret'.exc = "none"
          /\ ret'.value = <<>>
          /\ UNCHANGED <<cache_chunks, cache_index, cache_model, loads>>]_vars

\* a whitespace-only query answered while the chunk-list file is missing
C6_Witness ==
    /\ ret.op = "relevant" /\ ret.topic.kind = "str" /\ ret.topic.val # <<>>
    /\ Blank(ret.topic)
    /\ ret.exc = "none"
    /\ disk_chunks = Absent /\ cache_chunks = None

InRange(i) == 0 <= i /\ i < Len(Loaded)

\* the positions of ret.ids up to j that hold an in-range id
KeptUpTo(j) == { p \in 1..j : InRange(ret.ids[p]) }

\* C7: a search that returned did so with exactly the chunks at the in-range ids the
\* index gave, in the index's order: ids outside [0, len(chunks)) (the -1 fillers, ids
\* beyond a shorter chunk list) are skipped, and at most top_k chunks are returned.
C7_OutOfRangeDropped ==
    (ret.op = "relevant" /\ ret.exc = "none" /\ ~Blank(ret.topic)) =>
        /\ Len(ret.ids) = ret.n
        /\ Len(ret.value) = Cardinality(KeptUpTo(Len(ret.ids)))
        /\ Len(ret.value) <= ret.n
        /\ \A j \in 1..Len(ret.ids) :
              InRange(ret.ids[j]) =>
                  ret.value[Cardinality(KeptUpTo(j))] = Loaded[ret.ids[j] + 1]

\* a search over an index with more rows than the chunk list has chunks, asked for
\* more rows than the index holds: an id beyond the list and a -1 filler are dropped
C7_Witness ==
    /\ ret.op = "relevant" /\ ret.exc = "none" /\ ~Blank(ret.topic)
    /\ \E j \in 1..Len(ret.ids) : ret.ids[j] = -1
    /\ \E j \in 1..Len(ret.ids) : ret.ids[j] >= Len(Loaded)
    /\ ret.value # <<>>

\* C8: when the index file or the chunk-list file is absent, a retrieval call
\* (a search with a non-blank query, or get_random_chunks_with_sources) raises
\* RuntimeError naming a missing path and returns nothing.
C8_MissingArtifactFails ==
    ( /\ ret.op \in {"relevant", "random"}
      /\ ret.op = "relevant" => ~Blank(ret.topic)
      /\ (disk_index = Absent \/ disk_chunks = Absent) ) =>
        /\ ret.exc = "RuntimeError"
        /\ ret.value = <<>>
        /\ \/ ret.path = "TEXTS_PATH" /\ disk_chunks = Absent
           \/ ret.path = "INDEX_PATH" /\ disk_index = Absent

\* C9: a search never pairs an index of one build with the chunk list of another:
\* whenever a search has returned, the index and the chunk list it used are aligned
\* row for row.
C9_SameBuildPair ==
    (ret.op = "relevant" /\ ret.exc = "none" /\ ~Blank(ret.topic)) =>
        Aligned(cache_index.rows, Loaded)

\* C10: each of the chunk list, the index and the model is loaded successfully at most
\* once, and once an object is cached every later step keeps that same object and
\* adds no load of it.
C10_LoadedOnce ==
    /\ [](loads.chunks <= 1 /\ loads.index <= 1 /\ loads.model <= 1)
    /\ [][/\ cache_chunks # None =>
               cache_chunks' = cache_chunks /\ loads'.chunks = loads.chunks
          /\ cache_index # None =>
               cache_index' = cache_index /\ loads'.index = loads.index
          /\ cache_model => cache_model' /\ loads'.model = loads.model]_vars

\* a search answered from the cached objects after a rebuild changed both files
C10_Witness ==
    /\ ret.op = "relevant" /\ ret.exc = "none" /\ ~Blank(ret.topic)
    /\ loads = [chunks |-> 1, index |-> 1, model |-> 1]
    /\ Present(disk_chunks) /\ disk_chunks # cache_chunks
    /\ Present(disk_index) /\ disk_index # cache_index

-----------------------------------------------------------------------------
(* Properties of the build and of the readers of its files.                *)

\* the exceptions the code raises itself, with a message of its own
Deliberate == {"RuntimeError", "ValueError"}

\* the failures that come from outside a run of build_index
External == {"Exception", "OSError"}

\* C15: a run of build_index that extracted zero chunks ends with a descriptive error
\* of its own (unless something outside the run stopped it first), and leaves the
\* index file and the chunk-list file as they were.
C15_EmptyCorpusFails ==
    [][(b_pc = "extracted" /\ b_chunks = <<>> /\ b_pc' = "idle") =>
          /\ ret'.op = "build"
          /\ ret'.exc \in Deliberate \cup External
          /\ UNCHANGED disk_vars]_vars

RetrievalOps == {"relevant", "relevant_context", "random", "random_context"}

\* C16: every retrieval call returns sources next to text: whenever
\* get_relevant_chunks_with_sources, get_relevant_context,
\* get_random_chunks_with_sources or get_random_context has returned, each chunk it
\* took from the loaded list is in what it returned with its text and its source as
\* they are in the list.
C16_SourcesReturned ==
    (ret.op \in RetrievalOps /\ ret.exc = "none" /\ cache_chunks # None) =>
        \A j \in 1..Len(ret.ids) :
            InRange(ret.ids[j]) =>
                \E i \in 1..Len(ret.value) :
                    /\ "source" \in DOMAIN ret.value[i]
                    /\ ret.value[i].source = Loaded[ret.ids[j] + 1].source
                    /\ ret.value[i].text = Loaded[ret.ids[j] + 1].text

\* a vector of length 1.0
IsUnit(v) == Dot(v, v) = 5 * 5

\* C17: every row added to the index at build time and every query vector handed to
\* an index search is L2-normalised, on every search path:
\* get_relevant_chunks_with_sources and rag_metrics.retrieve_chunks.
C17_Normalised ==
    /\ \A i \in 1..Len(b_index) : IsUnit(b_index[i])
    /\ Present(disk_index) => \A i \in 1..Len(disk_index.rows) : IsUnit(disk_index.rows[i])
    /\ (ret.op \in {"relevant", "relevant_context", "metrics"} /\ ret.query # <<>>) =>
          IsUnit(ret.query)

Score(rows, id, q) == Dot(rows[id + 1], q)

\* C19: after a successful build, a search of the index with the normalised embedding
\* of the text of chunk i and any top_k >= 1 has chunk i as its top result or tied
\* for top (the top row scores what row i scores); and so has every
\* get_relevant_chunks_with_sources call made with the text of a chunk of an aligned
\* loaded index as its query.
C19_SelfRetrieval ==
    /\ ret = BuildEnded("none") =>
          \A i \in 1..Len(disk_chunks.list), top_k \in 1..(MaxChunks + 1) :
              LET q == QueryVector(disk_chunks.list[i].text)
                  idxs == IndexSearch(disk_index.rows, q, top_k)
              IN  /\ idxs[1] \in 0..(Len(disk_index.rows) - 1)
                  /\ Score(disk_index.rows, idxs[1], q) = Score(disk_index.rows, i - 1, q)
                  /\ \A r \in 1..Len(disk_index.rows) :
                        Score(disk_index.rows, r - 1, q) <= Score(disk_index.rows, i - 1, q)
    /\ ( /\ ret.op = "relevant" /\ ret.exc = "none" /\ ~Blank(ret.topic)
         /\ Aligned(cache_index.rows, Loaded) ) =>
          \A i \in 1..Len(Loaded) :
              Loaded[i].text = Strip(ret.topic.val) =>
                  /\ ret.value # <<>>
                  /\ Score(cache_index.rows, ret.ids[1], ret.query)
                       = Score(cache_index.rows, i - 1, ret.query)

\* a search for the text of a chunk of an aligned index of rows that differ, which
\* came first
C19_Witness ==
    /\ ret.op = "relevant" /\ ret.exc = "none" /\ ~Blank(ret.topic)
    /\ Aligned(cache_index.rows, Loaded)
    /\ Len(Loaded) >= 2
    /\ cache_index.rows[1] # cache_index.rows[2]
    /\ \E i \in 1..Len(Loaded) :
          Loaded[i].text = Strip(ret.topic.val) /\ ret.value[1] = Loaded[i]

CallOps == {"relevant", "random", "start", "evaluate"}

\* C20: no get_relevant_chunks_with_sources, get_random_chunks_with_sources,
\* start_interview or evaluate_answer call changes the loaded artifacts or the files:
\* a call leaves both files as they are, loads an object as its file holds it, and
\* leaves an object that is loaded exactly as it was (no row or chunk added, removed,
\* reordered or altered).
C20_CallsReadOnly ==
    [][(b_pc = "idle" /\ b_pc' = "idle" /\ ret'.op \in CallOps) =>
          /\ UNCHANGED disk_vars
          /\ cache_chunks' = (IF cache_chunks # None THEN cache_chunks
                              ELSE IF cache_chunks' # None THEN disk_chunks ELSE None)
          /\ cache_index' = (IF cache_index # None THEN cache_index
                             ELSE IF cache_index' # None THEN disk_index ELSE None)]_vars

\* an interview started from a random sample of a loaded list of several chunks
C20_Witness ==
    /\ ret.op = "start" /\ ret.exc = "none" /\ ret.random
    /\ Len(ret.ids) >= 2
    /\ ret.ids[1] > ret.ids[2]
    /\ cache_chunks # None /\ Len(Loaded) >= 2

-----------------------------------------------------------------------------
(* Properties of the interview service (checked under SpecInterview).      *)

\* the chunks the retrieval call of the call just ended returned
Retrieved == SelectChunks(ret.ids, Loaded)

\* position of a file name in the order of sorted()
Rank(name) == IF name = "algo.pdf" THEN 1 ELSE 2

\* s lists the sources of chunks, each once, in sorted order
SortedSetOfSources(s, chunks) ==
    /\ \A i \in 1..Len(s) : \E j \in 1..Len(chunks) : chunks[j].source = s[i]
    /\ \A j \in 1..Len(chunks) : \E i \in 1..Len(s) : s[i] = chunks[j].source
    /\ \A i, k \in 1..Len(s) : i < k => Rank(s[i]) < Rank(s[k])

\* where the text of chunk k begins in the joined text (0-based)
RECURSIVE StartOf(_, _)
StartOf(chunks, k) ==
    IF k = 1 THEN 0 ELSE StartOf(chunks, k - 1) + Len(chunks[k - 1].text) + 2

\* text is the texts of chunks in order, a blank line between two neighbours
JoinedByBlankLine(text, chunks) ==
    LET n == Len(chunks)
    IN  /\ Len(text) = (IF n = 0 THEN 0 ELSE StartOf(chunks, n) + Len(chunks[n].text))
        /\ \A k \in 1..n :
              SubSeq(text, StartOf(chunks, k) + 1, StartOf(chunks, k) + Len(chunks[k].text))
                 = chunks[k].text
        /\ \A k \in 2..n :
              text[StartOf(chunks, k) - 1] = "\n" /\ text[StartOf(chunks, k)] = "\n"

\* C21: the sources a start_interview or evaluate_answer call returns are exactly the
\* sources of the chunks retrieved for that call, each once and in sorted order; the
\* context handed to the language model is the texts of those chunks in retrieval
\* order joined by a blank line; and every question start_interview returns carries
\* a sources field equal to global_sources.
C21_Provenance ==
    /\ (ret.op = "start" /\ ret.exc = "none") =>
          /\ SortedSetOfSources(ret.value.global_sources, Retrieved)
          /\ JoinedByBlankLine(ret.context, Retrieved)
          /\ \A i \in 1..Len(ret.value.questions) :
                ret.value.questions[i].sources = ret.value.global_sources
    /\ (ret.op = "evaluate" /\ ret.exc = "none") =>
          /\ SortedSetOfSources(ret.value.sources, Retrieved)
          /\ JoinedByBlankLine(ret.context, Retrieved)

\* an interview started from three chunks of two books, a chunk of the second book
\* retrieved first
C21_Witness ==
    /\ ret.op = "start" /\ ret.exc = "none"
    /\ Len(Retrieved) >= 3
    /\ Retrieved[1].source = "ds.pdf"
    /\ \E i, j \in 1..Len(Retrieved) : i # j /\ Retrieved[i].source = Retrieved[j].source
    /\ ret.value.global_sources = <<"algo.pdf", "ds.pdf">>
    /\ Len(ret.value.questions) >= 2

\* a topic argument start_interview replaces: None, "" or not a str
MissingTopic(topic) == topic.kind # "str" \/ topic.val = <<>>

\* the error start_interview raises itself
NoChunksError == ret.exc = "RuntimeError" /\ ret.path = ""

\* C24: a start_interview call whose retrieval returned no chunk raises RuntimeError
\* and does not call the question generator (nor does any call that raises); with
\* random_from_rag set no search is made whatever the topic and the topic returned
\* is "RAG_RANDOM"; without it a topic that is None, "" or not a str is replaced by
\* "data structures" before the search (any other topic is searched as given), so
\* with a chunk list that is not empty a missing topic does not end in the
\* no-chunks error.
C24_StartInterviewErrors ==
    ret.op = "start" =>
        /\ (ret.retrieval = "none" /\ ~ret.found) => NoChunksError
        /\ ret.retrieval # "none" => ret.exc = ret.retrieval
        /\ ret.exc # "none" => ~ret.generated /\ ret.context = <<>>
        /\ ret.exc = "none" => ret.generated /\ ret.found
        /\ ret.random =>
              /\ ret.searched = NoTopic /\ ret.query = <<>>
              /\ ret.exc = "none" => ret.value.topic = RagRandom
        /\ ~ret.random =>
              /\ ret.searched = (IF MissingTopic(ret.topic) THEN DefaultTopic
                                  ELSE ret.topic)
              /\ ret.exc = "none" => ret.value.topic = ret.searched
        /\ (~ret.random /\ MissingTopic(ret.topic)
               /\ cache_chunks # None /\ Len(Loaded) > 0) => ~NoChunksError

\* an interview started with a topic that is not a str, on a directory of several
\* chunks
C24_Witness ==
    /\ ret.op = "start" /\ ~ret.random
    /\ ret.topic = NotStr /\ ret.exc = "none"
    /\ ret.searched = DefaultTopic
    /\ ret.value.topic = DefaultTopic
    /\ Len(Retrieved) >= 2

\* C25: an evaluate_answer call with an empty or None question_text, ideal_answer or
\* user_answer raises ValueError before anything else happens: nothing is loaded, no
\* search is made and no evaluation is asked for.
C25_EvaluateRequiresAll ==
    [][(ret'.op = "evaluate"
          /\ (MissingTopic(ret'.topic) \/ ret'.ideal = <<>> \/ ret'.user = <<>>)) =>
          /\ ret'.exc = "ValueError"
          /\ ret'.query = <<>> /\ ret'.ids = <<>>
          /\ ~ret'.evaluated
          /\ UNCHANGED <<cache_chunks, cache_index, cache_model, loads>>]_vars

\* a call refused for its empty user_answer alone, in a process that has loaded
\* nothing, the files being there
C25_Witness ==
    /\ ret.op = "evaluate" /\ ret.exc = "ValueError"
    /\ ~MissingTopic(ret.topic) /\ ret.ideal # <<>> /\ ret.user = <<>>
    /\ cache_chunks = None /\ cache_index = None /\ ~cache_model
    /\ Present(disk_chunks) /\ Present(disk_index)

-----------------------------------------------------------------------------
(* Properties of the routes (checked under SpecRoutes).                    *)

-----------------------------------------------------------------------------
(* Properties of the language-model chains (checked under SpecLlm).        *)

\* the call made to provider p in the call just ended, if any
CallsTo(p) == {i \in 1..Len(llm_ret.calls) : llm_ret.calls[i].provider = p}

\* the providers called, in the order of the calls
Providers == [i \in 1..Len(llm_ret.calls) |-> llm_ret.calls[i].provider]

\* a reply to an evaluation request that gives an evaluation: from Groq a JSON object
\* whose score and reliability_score, where given, are numbers; from Gemini any text
GivesEvaluation(call) ==
    IF call.reply.kind = "raises" THEN FALSE
    ELSE IF call.provider = "gemini" THEN ~call.reply.empty
    ELSE /\ call.reply.json = "value"
         /\ call.reply.value.type = "object"
         /\ \A k \in DOMAIN call.reply.value.fields \cap {"score", "reliability_score"} :
               call.reply.value.fields[k].type = "number"

\* C26: evaluate_with_gemini never raises and returns a dict with the keys score,
\* feedback, missing_points, reliability_score, grounded_in_context and reasoning,
\* score and reliability_score being integers from 0 to 100; Groq is asked first,
\* the Gemini text fallback only when Groq gave no evaluation, and the fixed default
\* with score 0 is returned only when neither gave one.
C26_EvaluationNeverFails ==
    llm_ret.op = "evaluate" =>
        /\ llm_ret.exc = "none"
        /\ DOMAIN llm_ret.value = {"score", "feedback", "missing_points",
                                    "reliability_score", "grounded_in_context",
                                    "reasoning"}
        /\ llm_ret.value.score \in 0..100
        /\ llm_ret.value.reliability_score \in 0..100
        /\ Providers \in {<<"groq">>, <<"groq", "gemini">>, <<"gemini">>}
        /\ groq_client => Providers[1] = "groq"
        /\ \A i \in 1..(Len(llm_ret.calls) - 1) : ~GivesEvaluation(llm_ret.calls[i])
        /\ llm_ret.used \in {"groq", "gemini"} =>
              /\ llm_ret.used = Providers[Len(Providers)]
              /\ GivesEvaluation(llm_ret.calls[Len(llm_ret.calls)])
        /\ llm_ret.used \notin {"groq", "gemini"} =>
              /\ llm_ret.used = "default"
              /\ llm_ret.value.score = 0
              /\ Providers[Len(Providers)] = "gemini"
              /\ ~GivesEvaluation(llm_ret.calls[Len(llm_ret.calls)])

\* an evaluation by Groq whose out-of-range scores were brought into range
C26_Witness ==
    /\ llm_ret.op = "evaluate" /\ llm_ret.used = "groq"
    /\ llm_ret.calls[1].reply =
          Json(JObject([score |-> JNumber(-5), reliability_score |-> JNumber(150),
                        feedback |-> ""]))
    /\ llm_ret.value.score = 0
    /\ llm_ret.value.reliability_score = 100

\* a reply to a request for questions that gives questions: JSON that is an array of
\* dicts or an empty object
GivesQuestions(call) ==
    /\ call.reply.kind = "text"
    /\ call.reply.json = "value"
    /\ \/ /\ call.reply.value.type = "list"
          /\ \A i \in 1..Len(call.reply.value.items) : call.reply.value.items[i].dict
       \/ /\ call.reply.value.type = "object"
          /\ DOMAIN call.reply.value.fields = {}

\* C27: generate_questions_from_context never raises; it asks Gemini, then Groq, and
\* then makes the questions itself, going on to the next only when the one before
\* raised or gave nothing that parses; and the questions it makes itself are exactly
\* num_questions, with the ids 1..num_questions, each with a question and an
\* ideal_answer, also for an empty context.
C27_GenerationChain ==
    llm_ret.op = "generate" =>
        /\ llm_ret.exc = "none"
        /\ Providers \in {<<"gemini">>, <<"gemini", "groq">>}
        /\ \A i \in 1..(Len(llm_ret.calls) - 1) : ~GivesQuestions(llm_ret.calls[i])
        /\ llm_ret.used \in {"gemini", "groq"} =>
              /\ llm_ret.used = Providers[Len(Providers)]
              /\ GivesQuestions(llm_ret.calls[Len(llm_ret.calls)])
        /\ llm_ret.used \notin {"gemini", "groq"} =>
              /\ llm_ret.used = "local"
              /\ \A i \in 1..Len(llm_ret.calls) : ~GivesQuestions(llm_ret.calls[i])
              /\ groq_client => Providers = <<"gemini", "groq">>
              /\ Len(llm_ret.value) = llm_ret.args.num_questions
              /\ \A i \in 1..Len(llm_ret.value) :
                    /\ llm_ret.value[i].id = i
                    /\ llm_ret.value[i].question # ""
                    /\ llm_ret.value[i].ideal_answer # ""

\* questions made locally for an empty context after Gemini raised and Groq gave an
\* array with an element that is not a dict
C27_Witness ==
    /\ llm_ret.op = "generate" /\ llm_ret.used = "local"
    /\ llm_ret.args.context = <<>>
    /\ llm_ret.args.num_questions >= 3
    /\ Len(llm_ret.value) = llm_ret.args.num_questions
    /\ Len(llm_ret.calls) = 2
    /\ llm_ret.calls[1].reply = Raises
    /\ llm_ret.calls[2].reply = Json(JList(<<QuestionDict(1), NotADict>>))

-----------------------------------------------------------------------------
(* Properties of speech out and in (checked under SpecTts and SpecStt).    *)

\* the place of a provider in the chain of tts_say
TtsRank(provider) ==
    CASE provider = "elevenlabs" -> 1
      [] provider = "gemini" -> 2
      [] provider = "groq" -> 3
      [] provider = "local" -> 4

\* provider p was asked in the call e of the log
Attempted(p, e) == \E a \in 1..Len(e.calls) : e.calls[a].provider = p

\* provider p was asked in the call e of the log and did not succeed
FailedIn(p, e) ==
    \E a \in 1..Len(e.calls) : e.calls[a].provider = p /\ e.calls[a].outcome # "ok"

\* C28: tts_say asks the providers in the order ElevenLabs, Gemini, Groq, local and
\* stops at the first that succeeds; a Gemini (or Groq) TTS that has failed in one
\* call is asked in no later call of the process; local TTS runs only when every
\* cloud provider that is still enabled has failed in this call; and a blank text
\* has no provider asked.
C28_TtsChain ==
    \A j \in 1..Len(tts_log) :
        LET e == tts_log[j]
            n == Len(e.calls)
        IN  /\ Blank(e.text) => n = 0
            /\ ~Blank(e.text) => n > 0 /\ e.calls[1].provider = "elevenlabs"
            /\ \A a, b \in 1..n :
                  a < b => TtsRank(e.calls[a].provider) < TtsRank(e.calls[b].provider)
            /\ \A a \in 1..(n - 1) : e.calls[a].outcome # "ok"
            /\ n > 0 /\ e.calls[n].outcome # "ok" => e.calls[n].provider = "local"
            /\ \A i \in 1..(j - 1), p \in {"gemini", "groq"} :
                  FailedIn(p, tts_log[i]) => ~Attempted(p, e)
            /\ Attempted("local", e) =>
                  \A p \in {"elevenlabs", "gemini", "groq"} :
                      \/ FailedIn(p, e)
                      \/ /\ p # "elevenlabs"
                         /\ \E i \in 1..(j - 1) : FailedIn(p, tts_log[i])

\* Gemini failed and Groq spoke in one call; in the next ElevenLabs failed again,
\* Gemini was passed over, Groq failed and the local voice spoke
C28_Witness ==
    /\ Len(tts_log) >= 2
    /\ [a \in 1..Len(tts_log[1].calls) |-> tts_log[1].calls[a].provider] =
          <<"elevenlabs", "gemini", "groq">>
    /\ tts_log[1].calls[3].outcome = "ok"
    /\ tts_log[2].calls =
          <<Stage("elevenlabs", "false"), Stage("groq", "raises"), Stage("local", "ok")>>

\* a reply that is no transcript: the provider raised, or what it gave is empty
\* once stripped
NoTranscript(reply) == reply.kind # "str" \/ Strip(reply.val) = <<>>

\* C29: stt_transcribe asks ElevenLabs, then Gemini, then Groq Whisper and returns the
\* first transcript that is not empty; a provider that raises or gives an empty
\* transcript is followed by the next one; and the empty string is returned, without
\* an exception, when all three have failed.
C29_SttChain ==
    stt_ret.op = "stt" =>
        LET n == Len(stt_ret.calls)
        IN  /\ stt_ret.exc = "none"
            /\ [a \in 1..n |-> stt_ret.calls[a].provider] \in
                  {<<"elevenlabs">>, <<"elevenlabs", "gemini">>,
                   <<"elevenlabs", "gemini", "groq">>}
            /\ \A a \in 1..(n - 1) : NoTranscript(stt_ret.calls[a].reply)
            /\ stt_ret.value # <<>> =>
                  /\ ~NoTranscript(stt_ret.calls[n].reply)
                  /\ stt_ret.value = Strip(stt_ret.calls[n].reply.val)
            /\ stt_ret.value = <<>> =>
                  /\ n = 3
                  /\ \A a \in 1..n : NoTranscript(stt_ret.calls[a].reply)

-----------------------------------------------------------------------------
(* Properties of the question rounds of main (checked under SpecMain).     *)

\* a pass through the body of the technical loop
TechPass == main.pc = "tech" /\ main'.pc # "hr" /\ main'.iterations = main.iterations + 1

\* C30: the technical loop of main ends, after at most 50 passes (the HR loop after
\* at most 30), with tech_answered at most TECH_REQUIRED; a pass through its body
\* adds to tech_answered and total_score only for an answer that is not a pass and
\* that evaluate_answer returned an evaluation for; a pass answer, an evaluation
\* that raised and an empty transcript leave both as they were.
C30_RoundsTerminate ==
    /\ [](main.pc = "hr" => main.iterations <= 30)
    /\ [](main.pc \in {"tech", "done"} =>
            main.iterations <= 50 /\ main.tech_answered <= 3)
    /\ [][TechPass =>
            LET st == main'.step
                counted == \/ main'.tech_answered # main.tech_answered
                           \/ main'.total_score # main.total_score
            IN  /\ counted =>
                      /\ main'.tech_answered = main.tech_answered + 1
                      /\ main'.total_score = main.total_score + st.score
                      /\ st.evaluated = "returned"
                      /\ ~IsPassAnswer(st.transcript)
                      /\ st.transcript # <<>>
                /\ (st.did = "pass" \/ st.evaluated = "raised" \/ st.transcript = <<>>) =>
                      /\ main'.tech_answered = main.tech_answered
                      /\ main'.total_score = main.total_score]_vars
    /\ <>(main.pc \in {"done", "raised"})

\* the technical loop ended by its 50th pass, two answers counted and the last one
\* passed
C30_Witness ==
    /\ main.pc = "done"
    /\ main.iterations = TechMaxLoops
    /\ main.tech_max_loops = 0
    /\ main.tech_answered = 2
    /\ main.total_score = 100
    /\ main.step.did = "pass"

====
